---- MODULE Spec2Model ----
(***************************************************************************)
(* Request-log middleware of go-chi/httplog: one request travelling        *)
(* through RequestLogger.  The repository holds several generations of the *)
(* middleware; the variable "variant" selects which one serves the request *)
(*   "mwA" src/middleware.go:19-166   (ReadAll body copy, OPTIONS first)   *)
(*   "mwB" src/middleware.go:197-335  (TeeReader, logBody)                 *)
(*   "fmt" src/unnamed/part_012       (Format based, predicates)           *)
(*   "lh"  src/logger.go:311-389 with src/handler.go (Logger.Handle)       *)
(* Strings are sequences of one-character strings, so that prefix tests    *)
(* and slicing are computed as the code computes them.                     *)
(***************************************************************************)
EXTENDS Integers, Sequences, FiniteSets, TLC

----------------------------------------------------------------------------
(* Bounds *)

MaxBody == 2
MaxResp == 2
MaxVals == 2
MaxAllow == 3
MaxAttrs == 2
MaxCalls == 2
MaxRequests == 2
MaxGrouped == 3
MaxArrivals == 3
MaxTime == 4
MaxHide == 2
MaxMutations == 2

(* slog levels and the status the recovery writes *)
LevelDebug == -4
LevelInfo == 0
LevelWarn == 4
LevelError == 8
StatusInternalServerError == 500
defaultLogBodyMaxLen == 1024

Levels == {LevelDebug, LevelInfo, LevelWarn, LevelError}

(* body bytes are digits: no Content-Type and no marker contains a digit *)
Bytes == {"0", "1"}

RECURSIVE SeqsUpTo(_, _)
SeqsUpTo(S, n) ==
  IF n = 0 THEN {<<>>}
  ELSE LET prev == SeqsUpTo(S, n - 1)
       IN prev \cup {Append(s, x) : s \in {t \in prev : Len(t) = n - 1}, x \in S}

(* status codes a handler writes: both sides of every threshold of the level switch *)
Statuses == {200, 399, 400, 429, 499, 500}

None == "none"
ErrAbortHandler == "http.ErrAbortHandler"
PanicValues == {"boom", ErrAbortHandler}

Variants == {"mwA", "mwB", "fmt", "lh"}

----------------------------------------------------------------------------
(* Content types, as the character strings the code compares *)

ctEmpty == <<>>
ctJSON == <<"a","p","p","l","i","c","a","t","i","o","n","/","j","s","o","n">>
ctXML == <<"a","p","p","l","i","c","a","t","i","o","n","/","x","m","l">>
ctTextPlain == <<"t","e","x","t","/","p","l","a","i","n">>
ctTextCSV == <<"t","e","x","t","/","c","s","v">>
ctForm == <<"a","p","p","l","i","c","a","t","i","o","n","/","x","-","w","w","w","-","f","o","r","m","-","u","r","l","e","n","c","o","d","e","d">>
ctPNG == <<"i","m","a","g","e","/","p","n","g">>
ctJSONUtf8 == ctJSON \o <<";"," ","c","h","a","r","s","e","t","=","u","t","f","-","8">>

(* defaultOptions.LogBodyContentTypes *)
defaultLogBodyContentTypes == <<ctJSON, ctXML, ctTextPlain, ctTextCSV, ctForm, ctEmpty>>

(* strings.HasPrefix *)
HasPrefix(s, prefix) ==
  Len(prefix) <= Len(s) /\ SubSeq(s, 1, Len(prefix)) = prefix

(* slices.Contains *)
Contains(list, v) == \E i \in 1..Len(list) : list[i] = v

NoAttr == <<"<no attribute>">>
trimmedMarker == <<"... [trimmed]">>

----------------------------------------------------------------------------
(* Formats.  An attribute key is a sequence of tokens in which every
   delimiter character is a token of its own: "url.full" is
   <<"url", ".", "full">>, the empty key is <<>>. *)

(* src/format.go:42-66 *)
ECS ==
  [Timestamp |-> <<"@timestamp">>,
   Level |-> <<"log", ".", "level">>,
   Message |-> <<"message">>,
   Error |-> <<"error", ".", "message">>,
   ErrorStackTrace |-> <<"error", ".", "stack_trace">>,
   RequestURL |-> <<"url", ".", "full">>,
   RequestMethod |-> <<"http", ".", "request", ".", "method">>,
   RequestPath |-> <<"url", ".", "path">>,
   RequestRemoteIP |-> <<"client", ".", "ip">>,
   RequestHost |-> <<"url", ".", "domain">>,
   RequestScheme |-> <<"url", ".", "scheme">>,
   RequestProto |-> <<"http", ".", "version">>,
   RequestHeaders |-> <<"http", ".", "request", ".", "headers">>,
   RequestBody |-> <<"http", ".", "request", ".", "body", ".", "content">>,
   RequestBytes |-> <<"http", ".", "request", ".", "body", ".", "bytes">>,
   RequestBytesUnread |-> <<"http", ".", "request", ".", "body", ".", "unread", ".", "bytes">>,
   RequestUserAgent |-> <<"user_agent", ".", "original">>,
   RequestReferer |-> <<"http", ".", "request", ".", "referrer">>,
   ResponseHeaders |-> <<"http", ".", "response", ".", "headers">>,
   ResponseBody |-> <<"http", ".", "response", ".", "body", ".", "content">>,
   ResponseStatus |-> <<"http", ".", "response", ".", "status_code">>,
   ResponseDuration |-> <<"event", ".", "duration">>,
   ResponseBytes |-> <<"http", ".", "response", ".", "body", ".", "bytes">>,
   GroupDelimiter |-> ""]

(* src/format.go:71-95 *)
OTEL ==
  [Timestamp |-> <<"timestamp">>,
   Level |-> <<"severity_text">>,
   Message |-> <<"body">>,
   Error |-> <<"exception", ".", "message">>,
   ErrorStackTrace |-> <<"exception", ".", "stacktrace">>,
   RequestURL |-> <<"url", ".", "full">>,
   RequestMethod |-> <<"http", ".", "request", ".", "method">>,
   RequestPath |-> <<"url", ".", "path">>,
   RequestRemoteIP |-> <<"client", ".", "address">>,
   RequestHost |-> <<"server", ".", "address">>,
   RequestScheme |-> <<"url", ".", "scheme">>,
   RequestProto |-> <<"network", ".", "protocol", ".", "version">>,
   RequestHeaders |-> <<"http", ".", "request", ".", "header">>,
   RequestBody |-> <<"http", ".", "request", ".", "body", ".", "content">>,
   RequestBytes |-> <<"http", ".", "request", ".", "body", ".", "size">>,
   RequestBytesUnread |-> <<"http", ".", "request", ".", "body", ".", "unread", ".", "size">>,
   RequestUserAgent |-> <<"user_agent", ".", "original">>,
   RequestReferer |-> <<"http", ".", "request", ".", "header", ".", "referer">>,
   ResponseHeaders |-> <<"http", ".", "response", ".", "header">>,
   ResponseBody |-> <<"http", ".", "response", ".", "body", ".", "content">>,
   ResponseStatus |-> <<"http", ".", "response", ".", "status_code">>,
   ResponseDuration |-> <<"http", ".", "server", ".", "request", ".", "duration">>,
   ResponseBytes |-> <<"http", ".", "response", ".", "body", ".", "size">>,
   GroupDelimiter |-> ""]

(* src/format.go:101-126 *)
GCP ==
  [Timestamp |-> <<"timestamp">>,
   Level |-> <<"severity">>,
   Message |-> <<"message">>,
   Error |-> <<"error">>,
   ErrorStackTrace |-> <<"stack_trace">>,
   RequestURL |-> <<"httpRequest", ".", "requestUrl">>,
   RequestMethod |-> <<"httpRequest", ".", "requestMethod">>,
   RequestPath |-> <<"httpRequest", ".", "requestPath">>,
   RequestRemoteIP |-> <<"httpRequest", ".", "remoteIp">>,
   RequestHost |-> <<"httpRequest", ".", "host">>,
   RequestScheme |-> <<"httpRequest", ".", "scheme">>,
   RequestProto |-> <<"httpRequest", ".", "protocol">>,
   RequestHeaders |-> <<"httpRequest", ".", "requestHeaders">>,
   RequestBody |-> <<"httpRequest", ".", "requestBody">>,
   RequestBytes |-> <<"httpRequest", ".", "requestSize">>,
   RequestBytesUnread |-> <<"httpRequest", ".", "requestUnreadSize">>,
   RequestUserAgent |-> <<"httpRequest", ".", "userAgent">>,
   RequestReferer |-> <<"httpRequest", ".", "referer">>,
   ResponseHeaders |-> <<"httpRequest", ".", "responseHeaders">>,
   ResponseBody |-> <<"httpRequest", ".", "responseBody">>,
   ResponseStatus |-> <<"httpRequest", ".", "status">>,
   ResponseDuration |-> <<"httpRequest", ".", "latency">>,
   ResponseBytes |-> <<"httpRequest", ".", "responseSize">>,
   GroupDelimiter |-> "."]

(* src/format.go:130-138 *)
Concise ==
  [Timestamp |-> <<>>,
   Level |-> <<>>,
   Message |-> <<>>,
   Error |-> <<"error">>,
   ErrorStackTrace |-> <<"stacktrace">>,
   RequestURL |-> <<>>,
   RequestMethod |-> <<>>,
   RequestPath |-> <<>>,
   RequestRemoteIP |-> <<>>,
   RequestHost |-> <<>>,
   RequestScheme |-> <<>>,
   RequestProto |-> <<>>,
   RequestHeaders |-> <<"request", ".", "headers">>,
   RequestBody |-> <<"request", ".", "body">>,
   RequestBytes |-> <<>>,
   RequestBytesUnread |-> <<"request", ".", "bytesUnread">>,
   RequestUserAgent |-> <<>>,
   RequestReferer |-> <<>>,
   ResponseHeaders |-> <<"response", ".", "headers">>,
   ResponseBody |-> <<"response", ".", "body">>,
   ResponseStatus |-> <<>>,
   ResponseDuration |-> <<>>,
   ResponseBytes |-> <<>>,
   GroupDelimiter |-> ""]

Formats == {ECS, OTEL, GCP, Concise}

----------------------------------------------------------------------------
(* Options *)

(* RequestLogger's normalisation of the options at construction:
   an empty LogBodyContentTypes and a zero LogBodyMaxLen take the defaults
   (src/middleware.go:201-206, src/unnamed/part_012:21-26).  The older
   generations have no such fields and keep them as given. *)
normalizeOptions(v, opts) ==
  IF v \in {"mwB", "fmt"}
  THEN [opts EXCEPT
          !.LogBodyContentTypes =
              IF Len(opts.LogBodyContentTypes) = 0
              THEN defaultLogBodyContentTypes ELSE opts.LogBodyContentTypes,
          !.LogBodyMaxLen =
              IF opts.LogBodyMaxLen = 0
              THEN defaultLogBodyMaxLen ELSE opts.LogBodyMaxLen]
  ELSE opts

----------------------------------------------------------------------------
(* Level of the request record *)

(* src/middleware.go:87-99: the switch of the first middleware *)
levelSwitchA(method, statusCode) ==
  IF method = "OPTIONS" THEN LevelDebug
  ELSE IF statusCode >= 500 THEN LevelError
  ELSE IF statusCode = 429 THEN LevelInfo
  ELSE IF statusCode >= 400 THEN LevelWarn
  ELSE LevelInfo

(* the switch without its 429 case *)
levelSwitchNo429(method, statusCode) ==
  IF statusCode >= 500 THEN LevelError
  ELSE IF statusCode >= 400 THEN LevelWarn
  ELSE IF method = "OPTIONS" THEN LevelDebug
  ELSE LevelInfo

(* src/middleware.go:262-274 and src/unnamed/part_012:86-98 *)
levelSwitchB(method, statusCode) ==
  IF statusCode >= 500 THEN LevelError
  ELSE IF statusCode = 429 THEN LevelInfo
  ELSE IF statusCode >= 400 THEN LevelWarn
  ELSE IF method = "OPTIONS" THEN LevelDebug
  ELSE LevelInfo

(* src/logger.go:372-382: two assignments, the second overriding the first *)
levelChainH(method, status) ==
  LET first == IF method = "OPTIONS" THEN LevelDebug ELSE LevelInfo
  IN IF status >= 500 THEN LevelError
     ELSE IF status = 429 THEN LevelInfo
     ELSE IF status >= 400 THEN LevelWarn
     ELSE first

requestLevel(v, method, status) ==
  CASE v = "mwA" -> levelSwitchA(method, status)
    [] v \in {"mwB", "fmt"} -> levelSwitchB(method, status)
    [] v = "lh" -> levelChainH(method, status)

----------------------------------------------------------------------------
(* Body rendering *)

(* the rendering that trims a body of exactly LogBodyMaxLen bytes *)
logBodyTrimsAtLimit(body, contentType, opts) ==
  IF Len(body) = 0 THEN <<>>
  ELSE IF \E i \in 1..Len(opts.LogBodyContentTypes) :
             HasPrefix(contentType, opts.LogBodyContentTypes[i])
  THEN IF opts.LogBodyMaxLen <= 0 \/ opts.LogBodyMaxLen > Len(body)
       THEN body
       ELSE SubSeq(body, 1, opts.LogBodyMaxLen) \o trimmedMarker
  ELSE <<"[redacted]">>

(* src/middleware.go:350-363 *)
logBodyB(body, contentType, opts) ==
  IF Len(body) = 0 THEN <<>>
  ELSE IF \E i \in 1..Len(opts.LogBodyContentTypes) :
             HasPrefix(contentType, opts.LogBodyContentTypes[i])
  THEN IF opts.LogBodyMaxLen <= 0 \/ opts.LogBodyMaxLen >= Len(body)
       THEN body
       ELSE SubSeq(body, 1, opts.LogBodyMaxLen) \o trimmedMarker
  ELSE <<"[redacted]">>

(* src/unnamed/part_012:200-214 *)
logBodyF(body, contentType, opts) ==
  IF Len(body) = 0 THEN <<>>
  ELSE IF \E i \in 1..Len(opts.LogBodyContentTypes) :
             HasPrefix(contentType, opts.LogBodyContentTypes[i])
  THEN IF opts.LogBodyMaxLen <= 0 \/ opts.LogBodyMaxLen >= Len(body)
       THEN body
       ELSE SubSeq(body, 1, opts.LogBodyMaxLen) \o trimmedMarker
  ELSE <<"[body redacted for Content-Type: ">> \o contentType \o <<"]">>

logBody(v, body, contentType, opts) ==
  IF v = "fmt" THEN logBodyF(body, contentType, opts)
  ELSE logBodyB(body, contentType, opts)

----------------------------------------------------------------------------
(* Response writers.  A writer is [code, wroteHeader, hdr, body]: the status
   line, whether it went out, the Content-Type sent with it and the bytes. *)

NewWriter == [code |-> 0, wroteHeader |-> FALSE, hdr |-> <<>>, body |-> <<>>]

(* net/http ResponseWriter.WriteHeader: the first call sends the status and
   the header map as it is at that moment *)
WriterWriteHeader(wr, code, header) ==
  IF wr.wroteHeader THEN wr
  ELSE [wr EXCEPT !.code = code, !.wroteHeader = TRUE, !.hdr = header]

(* net/http ResponseWriter.Write: an implicit WriteHeader(200), then the bytes *)
WriterWrite(wr, b, header) ==
  LET h == WriterWriteHeader(wr, 200, header)
  IN [h EXCEPT !.body = Append(h.body, b)]

(* middleware.NewWrapResponseWriter(w, r.ProtoMajor): [code, wroteHeader, bytes, tee] *)
NewWrapResponseWriter == [code |-> 0, wroteHeader |-> FALSE, bytes |-> 0, tee |-> FALSE]

(* WrapResponseWriter.WriteHeader: records the first code and passes it on *)
WrapWriteHeader(wrap, code) ==
  IF wrap.wroteHeader THEN wrap
  ELSE [wrap EXCEPT !.code = code, !.wroteHeader = TRUE]

(* WrapResponseWriter.Write: header if needed, the bytes to the underlying
   writer, a copy to the tee when one is set, the byte count *)
WrapWrite(wrap) ==
  LET h == WrapWriteHeader(wrap, 200)
  IN [h EXCEPT !.bytes = h.bytes + 1]

(* what WrapResponseWriter.WriteHeader passes to the writer it wraps: the
   first code only *)
WrapForwardHeader(wrap, wr, code, hdr) ==
  IF wrap.wroteHeader THEN wr ELSE WriterWriteHeader(wr, code, hdr)

(* what WrapResponseWriter.Write passes to the writer it wraps *)
WrapForwardWrite(wrap, wr, b, hdr) ==
  WriterWrite(WrapForwardHeader(wrap, wr, 200, hdr), b, hdr)

----------------------------------------------------------------------------
(* Request body streams.  The original body is [data, end, done]: the bytes
   still to come, how the stream ends ("EOF" or "ERR", a failing read), and
   whether the end has been observed.  r.Body is [kind, buf]: the original
   ("orig"), a TeeReader over it ("tee"), or a bytes.Buffer copy ("buf"). *)

(* a Read that passes the byte on without copying it to the buffer *)
ReadBodyNoTee(rb, og) ==
  IF rb.kind = "buf"
  THEN IF Len(rb.buf) > 0
       THEN [out |-> Head(rb.buf), isByte |-> TRUE, orig |-> og,
             rBody |-> [rb EXCEPT !.buf = Tail(rb.buf)], teed |-> <<>>]
       ELSE [out |-> "EOF", isByte |-> FALSE, orig |-> og, rBody |-> rb, teed |-> <<>>]
  ELSE IF Len(og.data) > 0
       THEN [out |-> Head(og.data), isByte |-> TRUE,
             orig |-> [og EXCEPT !.data = Tail(og.data)], rBody |-> rb,
             teed |-> <<>>]
       ELSE [out |-> og.end, isByte |-> FALSE,
             orig |-> [og EXCEPT !.done = TRUE], rBody |-> rb, teed |-> <<>>]

(* one Read of r.Body: <<byte or end, original after, r.Body after, bytes teed>> *)
ReadBody(rb, og) ==
  IF rb.kind = "buf"
  THEN IF Len(rb.buf) > 0
       THEN [out |-> Head(rb.buf), isByte |-> TRUE, orig |-> og,
             rBody |-> [rb EXCEPT !.buf = Tail(rb.buf)], teed |-> <<>>]
       ELSE [out |-> "EOF", isByte |-> FALSE, orig |-> og, rBody |-> rb, teed |-> <<>>]
  ELSE IF Len(og.data) > 0
       THEN [out |-> Head(og.data), isByte |-> TRUE,
             orig |-> [og EXCEPT !.data = Tail(og.data)], rBody |-> rb,
             teed |-> IF rb.kind = "tee" THEN <<Head(og.data)>> ELSE <<>>]
       ELSE [out |-> og.end, isByte |-> FALSE,
             orig |-> [og EXCEPT !.done = TRUE], rBody |-> rb, teed |-> <<>>]

(* a drain that reads nothing *)
CopyDiscardNothing(rb, og) ==
  [n |-> 0, orig |-> og, rBody |-> rb, teed |-> <<>>]

(* io.Copy(io.Discard, r.Body): reads until the stream ends;
   n is the number of bytes copied *)
CopyDiscard(rb, og) ==
  IF rb.kind = "buf"
  THEN [n |-> Len(rb.buf), orig |-> og, rBody |-> [rb EXCEPT !.buf = <<>>], teed |-> <<>>]
  ELSE [n |-> Len(og.data), orig |-> [og EXCEPT !.data = <<>>, !.done = TRUE],
        rBody |-> rb, teed |-> IF rb.kind = "tee" THEN og.data ELSE <<>>]

(* what n TeeReaders stacked on one another write to their common buffer
   for one chunk read through them *)
RECURSIVE teeTimes(_, _)
teeTimes(chunk, n) == IF n <= 0 THEN <<>> ELSE chunk \o teeTimes(chunk, n - 1)

(* io.ReadAll(r.Body) on the original body: the bytes before the end, and
   an error unless the stream ends with EOF *)
ReadAll(og) ==
  [bodyBytes |-> og.data, err |-> og.end # "EOF",
   orig |-> [og EXCEPT !.data = <<>>, !.done = TRUE]]

----------------------------------------------------------------------------
(* State *)

VARIABLES
  variant,        \* which generation of RequestLogger serves the request
  o,              \* *Options, after RequestLogger's normalisation
  given,          \* Level, LogBodyContentTypes and LogBodyMaxLen as the caller
                  \* set them
  loggerLevel,    \* minimum level of the logger handed to RequestLogger
  r,              \* the request: Method, Connection and Content-Type headers
  body,           \* the request body as it arrived: [data, end]
  next,           \* what the downstream handler may do: the status codes and
                  \* Content-Types it sets, the panic values it raises, the
                  \* levels it passes to SetLevel, the bytes it writes and
                  \* the bytes it reads at most
  orig,           \* the original body stream
  rBody,          \* r.Body as the handler sees it
  reqBody,        \* request capture buffer
  hRead,          \* bytes the handler has read so far
  hEnd,           \* how the handler saw the body end: none, "EOF" or "ERR"
  ww,             \* the WrapResponseWriter
  w,              \* the underlying ResponseWriter: what the client receives
  header,         \* response header map: its Content-Type
  respBody,       \* response capture buffer
  direct,         \* a ResponseWriter receiving the handler's calls unwrapped
  log,            \* the per-request *Log of Logger.Handle; Attrs is also the
                  \* attribute slice the other generations keep in the
                  \* context, ReqBodyReader the kind of log.Req.Body, the
                  \* Body of the middleware's own *http.Request, and
                  \* ReqBodyTees the number of TeeReaders around it
  pc,             \* position of the request's goroutine
  rec,            \* value returned by recover()
  rePanic,        \* a deferred panic(rec) is pending
  outPanic,       \* panic value that left the middleware
  lvl,            \* level chosen for the request record: <<>> until chosen
  sink,           \* records handed to the underlying slog handler, in order
  handlerStatus,  \* ww.Status() at the moment the handler stopped
  mwWrites,       \* WriteHeader calls made by the middleware itself
  trace,          \* the calls of SetLevel, SetAttrs, LogRequestBody and
                  \* LogResponseBody the handler has made for this request
  served,         \* requests this middleware has finished before this one
  call,           \* a call of one of the package's functions: its arguments
  ret,            \* what the call returned: <<>> until it has returned
  coolDowns,      \* the package's map coolDowns: route -> <<>> or <<time>>
  now,            \* the wall clock, in units of one QuietDownPeriod step
  requests,       \* the requests that reached Handler of src/httplog.go, in
                  \* order of arrival, each with the position of its
                  \* goroutine and the locals of rInCooldown
  inflight        \* the objects of a request whose facts are logged: the
                  \* middleware's *http.Request, the copy handed to the
                  \* handler, the header maps and URLs they point to,
                  \* log.Req and the records emitted

vars == <<variant, o, given, loggerLevel, r, body, next, orig, rBody, reqBody, hRead, hEnd,
          ww, w, header, respBody, direct, log, pc, rec, rePanic, outPanic,
          lvl, sink, handlerStatus, mwWrites, trace, served, call, ret,
          coolDowns, now, requests, inflight>>

quietVars == <<coolDowns, now, requests>>
callVars == <<call, ret, quietVars, inflight>>
optVars == <<variant, o, given, loggerLevel, r, body, next>>
cfgVars == <<optVars, callVars, trace, served>>
reqVars == <<orig, rBody, reqBody, hRead, hEnd>>
respVars == <<ww, w, header, respBody, direct>>
panicVars == <<rec, rePanic, outPanic>>

(* no function call is under way *)
NoCall == [fn |-> None]

(* the paths of the requests that reach Handler of src/httplog.go *)
Paths == {"/noisy", "/other", ""}

(* no request has reached Handler of src/httplog.go *)
noCooldown ==
  /\ coolDowns = [p \in {"/noisy", "/other", "/"} |-> <<>>]
  /\ now = 0
  /\ requests = <<>>

(* no request whose facts are followed is under way *)
noInflight == inflight = [pc |-> "idle"]

(* the fields of Options the generations read; LogRequestCURL stays at
   its zero value and Concise does unless the initial state sets it, Format
   is read by the Format-based generation only *)
OptionsOf(v, level, recoverPanics, logReq, logResp, extra, cts, maxLen, f) ==
  normalizeOptions(v,
    [Level |-> level, RecoverPanics |-> recoverPanics,
     LogRequestBody |-> logReq, LogResponseBody |-> logResp,
     LogExtraAttrs |-> extra, Concise |-> FALSE,
     LogBodyContentTypes |-> cts, LogBodyMaxLen |-> maxLen,
     LogResponseBodyContentType |-> <<ctJSON, ctTextPlain>>,
     Format |-> f])

(* the state in which a request reaches the middleware *)
InitRequest(Vs, Ls, LLs, RPs, Caps, Ms, Conns, ReqCTs, CTLists, MaxLens, Fs, Bodies, Ends, handler, Cs) ==
  /\ noCooldown
  /\ noInflight
  /\ variant \in Vs
  /\ \E level \in Ls, rp \in RPs, cap \in Caps, cts \in CTLists, ml \in MaxLens,
        f \in Fs, concise \in Cs :
       /\ given = [Level |-> level,
                   LogBodyContentTypes |->
                      IF variant \in {"mwB", "fmt"} THEN cts ELSE <<>>,
                   LogBodyMaxLen |->
                      IF variant \in {"mwB", "fmt"} THEN ml ELSE 0]
       /\ o = [OptionsOf(variant, level, rp, cap.req, cap.resp,
                         cap.extra /\ variant = "fmt",
                         given.LogBodyContentTypes, given.LogBodyMaxLen,
                         IF variant = "fmt" THEN f ELSE ECS)
                 EXCEPT !.Concise = concise]
  /\ loggerLevel \in LLs
  /\ r \in [Method : Ms, Connection : Conns, ContentType : ReqCTs]
  /\ body \in [data : Bodies, end : Ends]
  /\ next = handler
  /\ orig = [data |-> body.data, end |-> body.end, done |-> FALSE]
  /\ rBody = [kind |-> "orig", buf |-> <<>>]
  /\ reqBody = <<>>
  /\ hRead = <<>>
  /\ hEnd = None
  /\ ww = NewWrapResponseWriter
  /\ w = NewWriter
  /\ header = <<>>
  /\ respBody = <<>>
  /\ direct = NewWriter
  /\ log = [Level |-> o.Level, LogRequestBody |-> FALSE, LogResponseBody |-> FALSE,
            Panic |-> None, ReqBodyFullyRead |-> FALSE,
            Attrs |-> <<>>, ReqBodyReader |-> "orig", ReqBodyTees |-> 0]
  /\ pc = "entry"
  /\ rec = None
  /\ rePanic = FALSE
  /\ outPanic = None
  /\ lvl = <<>>
  /\ sink = <<>>
  /\ handlerStatus = 0
  /\ mwWrites = 0
  /\ trace = <<>>
  /\ served = 0
  /\ call = NoCall
  /\ ret = <<>>

(* the same with Concise at its zero value *)
InitWith(Vs, Ls, LLs, RPs, Caps, Ms, Conns, ReqCTs, CTLists, MaxLens, Fs, Bodies, Ends, handler) ==
  InitRequest(Vs, Ls, LLs, RPs, Caps, Ms, Conns, ReqCTs, CTLists, MaxLens, Fs, Bodies, Ends, handler, {FALSE})

(* no request is under way: the state in which one of the package's
   functions is called on its own *)
noRequest ==
  /\ variant = "mwB"
  /\ given = [Level |-> LevelInfo, LogBodyContentTypes |-> <<>>, LogBodyMaxLen |-> 0]
  /\ o = OptionsOf(variant, LevelInfo, TRUE, FALSE, FALSE, FALSE, <<>>, 0, ECS)
  /\ loggerLevel = LevelInfo
  /\ r = [Method |-> "GET", Connection |-> "", ContentType |-> ctEmpty]
  /\ body = [data |-> <<>>, end |-> "EOF"]
  /\ next = [statuses |-> {}, contentTypes |-> {}, maxWrite |-> 0,
             maxRead |-> 0, panics |-> {}, levels |-> {},
            attrs |-> {}]
  /\ orig = [data |-> <<>>, end |-> "EOF", done |-> FALSE]
  /\ rBody = [kind |-> "orig", buf |-> <<>>]
  /\ reqBody = <<>>
  /\ hRead = <<>>
  /\ hEnd = None
  /\ ww = NewWrapResponseWriter
  /\ w = NewWriter
  /\ header = <<>>
  /\ respBody = <<>>
  /\ direct = NewWriter
  /\ log = [Level |-> LevelInfo, LogRequestBody |-> FALSE, LogResponseBody |-> FALSE,
            Panic |-> None, ReqBodyFullyRead |-> FALSE,
            Attrs |-> <<>>, ReqBodyReader |-> "orig", ReqBodyTees |-> 0]
  /\ pc = "idle"
  /\ rec = None
  /\ rePanic = FALSE
  /\ outPanic = None
  /\ lvl = <<>>
  /\ sink = <<>>
  /\ handlerStatus = 0
  /\ mwWrites = 0
  /\ trace = <<>>
  /\ served = 0

requestVars0 == <<variant, o, given, loggerLevel, r, body, next, reqVars, respVars,
                  panicVars, log, pc, lvl, sink, handlerStatus, mwWrites, trace,
                  served>>
requestVars == <<requestVars0, quietVars, inflight>>

----------------------------------------------------------------------------
(* Attributes.  An attribute is [key, value, members]: a scalar has no
   members, a group (slog.GroupValue) has the value "group" and its
   attributes as members. *)

slogAttr(k, v) == [key |-> k, value |-> v, members |-> <<>>]
slogGroup(k, ms) == [key |-> k, value |-> "group", members |-> ms]

----------------------------------------------------------------------------
(* The context helpers.  gen names the generation of the helper:
   "context.go" (src/context.go), "part_010" (src/unnamed/part_010) or
   "part_009" (src/unnamed/part_009); carries tells whether the context
   holds the value the helper looks up.  Each returns how the call ended
   and the request log after it. *)

(* SetAttrs: src/context.go:53-60, src/unnamed/part_010:18-25,
   src/unnamed/part_009:46-50 *)
setAttrs(gen, carries, lg, as) ==
  IF carries THEN [out |-> "returned", log |-> [lg EXCEPT !.Attrs = @ \o as]]
  ELSE IF gen = "part_009" THEN [out |-> "returned", log |-> lg]
  ELSE [out |-> "panicked", log |-> lg]

(* a SetLevel that only ever lowers the threshold *)
setLevelMerging(carries, lg, level) ==
  IF carries
  THEN [out |-> "returned",
        log |-> [lg EXCEPT !.Level = IF level < @ THEN level ELSE @]]
  ELSE [out |-> "panicked", log |-> lg]

(* SetLevel: src/context.go:66-73, src/unnamed/part_010:31-38 *)
setLevel(carries, lg, level) ==
  IF carries THEN [out |-> "returned", log |-> [lg EXCEPT !.Level = level]]
  ELSE [out |-> "panicked", log |-> lg]

(* a LogRequestBody that wraps log.Req.Body on every call *)
logRequestBodyEveryCall(carries, lg) ==
  IF ~carries THEN [out |-> "panicked", log |-> lg]
  ELSE [out |-> "returned",
        log |-> [lg EXCEPT !.LogRequestBody = TRUE, !.ReqBodyReader = "tee",
                           !.ReqBodyTees = @ + 1]]

(* LogRequestBody: src/unnamed/part_010:40-50 *)
logRequestBody(carries, lg) ==
  IF ~carries THEN [out |-> "panicked", log |-> lg]
  ELSE IF ~lg.LogRequestBody
  THEN [out |-> "returned",
        log |-> [lg EXCEPT !.LogRequestBody = TRUE, !.ReqBodyReader = "tee",
                           !.ReqBodyTees = @ + 1]]
  ELSE [out |-> "returned", log |-> lg]

(* LogResponseBody: src/unnamed/part_010:52-62 *)
logResponseBody(carries, lg, wrap) ==
  IF ~carries THEN [out |-> "panicked", log |-> lg, ww |-> wrap]
  ELSE IF ~lg.LogResponseBody
  THEN [out |-> "returned", log |-> [lg EXCEPT !.LogResponseBody = TRUE],
        ww |-> [wrap EXCEPT !.tee = TRUE]]
  ELSE [out |-> "returned", log |-> lg, ww |-> wrap]

----------------------------------------------------------------------------
(* Entry: the middleware up to the call of next.ServeHTTP *)

(* the request body is mirrored for this request *)
captureRequest(v, opts) ==
  CASE v = "fmt" -> opts.LogRequestBody \/ opts.LogExtraAttrs
    [] OTHER -> opts.LogRequestBody

(* Handler.Enabled of Logger.Handle's generation: the per-request threshold *)
HandlerEnabled(lg, level) == level >= lg.Level

(* Enabled of the logger handed to the middleware *)
LoggerEnabled(min, level) == level >= min

startedRecord ==
  [msg |-> "Request started", req |-> 0, level |-> LevelDebug, status |-> 0,
   reqBody |-> NoAttr, respBody |-> NoAttr, unread |-> 0,
   fullyRead |-> <<>>, panic |-> None, stack |-> "absent",
   attrs |-> <<slogGroup(<<"request">>, <<>>)>>]

Entry ==
  /\ pc = "entry"
  /\ pc' = "handler"
  /\ ww' = [NewWrapResponseWriter EXCEPT !.tee = o.LogResponseBody]
  /\ log' = [log EXCEPT !.Level = o.Level,
                        !.LogRequestBody = o.LogRequestBody /\ variant = "lh",
                        !.LogResponseBody = o.LogResponseBody /\ variant = "lh",
                        !.ReqBodyReader =
                           IF ~captureRequest(variant, o) THEN "orig"
                           ELSE IF variant = "mwA" THEN "buf" ELSE "tee",
                        !.ReqBodyTees =
                           IF captureRequest(variant, o) /\ variant # "mwA"
                           THEN 1 ELSE 0]
  /\ sink' = IF variant = "lh" /\ HandlerEnabled(log', LevelDebug)
             THEN Append(sink, [startedRecord EXCEPT !.req = served]) ELSE sink
  /\ IF ~captureRequest(variant, o)
     THEN UNCHANGED <<orig, rBody, reqBody>>
     ELSE IF variant = "mwA"
     THEN LET ra == ReadAll(orig)
          IN /\ orig' = ra.orig
             /\ reqBody' = IF ~ra.err THEN ra.bodyBytes ELSE reqBody
             /\ rBody' = [kind |-> "buf", buf |-> ra.bodyBytes]
     ELSE /\ rBody' = [rBody EXCEPT !.kind = "tee"]
          /\ UNCHANGED <<orig, reqBody>>
  /\ UNCHANGED <<cfgVars, hRead, hEnd, w, header, respBody, direct,
                 panicVars, lvl, handlerStatus, mwWrites>>

----------------------------------------------------------------------------
(* The downstream handler: next.ServeHTTP(ww, r.WithContext(ctx)) *)

(* r.Body.Read *)
HRead ==
  /\ pc = "handler"
  /\ hEnd = None
  /\ Len(hRead) < next.maxRead
  /\ LET rd == ReadBody(rBody, orig)
     IN /\ orig' = rd.orig
        /\ rBody' = rd.rBody
        /\ reqBody' = reqBody \o rd.teed
        /\ hRead' = IF rd.isByte THEN Append(hRead, rd.out) ELSE hRead
        /\ hEnd' = IF rd.isByte THEN hEnd ELSE rd.out
  /\ UNCHANGED <<cfgVars, respVars, log, pc, panicVars, lvl, sink,
                 handlerStatus, mwWrites>>

(* w.Header().Set("Content-Type", ct); a handler sets it once *)
HSetHeader(ct) ==
  /\ pc = "handler"
  /\ header = <<>>
  /\ ct \in next.contentTypes
  /\ header' = ct
  /\ UNCHANGED <<cfgVars, reqVars, ww, w, respBody, direct, log, pc,
                 panicVars, lvl, sink, handlerStatus, mwWrites>>

(* w.WriteHeader(code) *)
HWriteHeader(code) ==
  /\ pc = "handler"
  /\ code \in next.statuses
  /\ ww' = WrapWriteHeader(ww, code)
  /\ w' = WrapForwardHeader(ww, w, code, header)
  /\ direct' = WriterWriteHeader(direct, code, header)
  /\ UNCHANGED <<cfgVars, reqVars, header, respBody, log, pc, panicVars,
                 lvl, sink, handlerStatus, mwWrites>>

(* w.Write([]byte{b}) *)
HWrite(b) ==
  /\ pc = "handler"
  /\ Len(direct.body) < next.maxWrite
  /\ ww' = WrapWrite(ww)
  /\ w' = WrapForwardWrite(ww, w, b, header)
  /\ respBody' = IF ww.tee THEN Append(respBody, b) ELSE respBody
  /\ direct' = WriterWrite(direct, b, header)
  /\ UNCHANGED <<cfgVars, reqVars, header, log, pc, panicVars, lvl, sink,
                 handlerStatus, mwWrites>>

(* httplog.SetLevel(ctx, level), src/context.go:66-73 *)
SetLevel(level) ==
  /\ pc = "handler"
  /\ variant = "lh"
  /\ level \in next.levels
  /\ level # log.Level
  /\ Len(SelectSeq(trace, LAMBDA c : c.fn = "SetLevel")) < MaxCalls
  /\ log' = setLevel(TRUE, log, level).log
  /\ trace' = Append(trace, [fn |-> "SetLevel", level |-> level, attrs |-> <<>>])
  /\ UNCHANGED <<optVars, callVars, served, reqVars, respVars, pc, panicVars,
                 lvl, sink, handlerStatus, mwWrites>>

(* httplog.SetAttrs(ctx, as...) with the request's context: SetAttrs of
   src/unnamed/part_009:46-50 in the RequestLogger generations, of
   src/context.go:53-60 in Logger.Handle *)
SetAttrs(as) ==
  /\ pc = "handler"
  /\ as \in next.attrs
  /\ Len(log.Attrs) + Len(as) <= MaxAttrs
  /\ log' = setAttrs(IF variant = "lh" THEN "context.go" ELSE "part_009",
                     TRUE, log, as).log
  /\ trace' = Append(trace, [fn |-> "SetAttrs", level |-> LevelInfo, attrs |-> as])
  /\ UNCHANGED <<optVars, callVars, served, reqVars, respVars, pc, panicVars,
                 lvl, sink, handlerStatus, mwWrites>>

(* httplog.LogRequestBody(ctx) with the request's context
   (src/unnamed/part_010:40-50).  The tee goes around log.Req.Body, the
   Body of the middleware's request; the handler reads the Body of the
   copy r.WithContext(ctx) made before.  The entry of the trace notes how
   many bytes the handler had read when it called. *)
LogRequestBody ==
  /\ pc = "handler"
  /\ variant = "lh"
  /\ Len(SelectSeq(trace, LAMBDA c : c.fn = "LogRequestBody")) < MaxCalls
  /\ log' = logRequestBody(TRUE, log).log
  /\ trace' = Append(trace, [fn |-> "LogRequestBody", level |-> LevelInfo,
                             attrs |-> <<>>, done |-> Len(hRead)])
  /\ UNCHANGED <<optVars, callVars, served, reqVars, respVars, pc, panicVars,
                 lvl, sink, handlerStatus, mwWrites>>

(* httplog.LogResponseBody(ctx) with the request's context
   (src/unnamed/part_010:52-62); the entry of the trace notes how many
   bytes the handler had written when it called *)
LogResponseBody ==
  /\ pc = "handler"
  /\ variant = "lh"
  /\ Len(SelectSeq(trace, LAMBDA c : c.fn = "LogResponseBody")) < MaxCalls
  /\ LET res == logResponseBody(TRUE, log, ww)
     IN log' = res.log /\ ww' = res.ww
  /\ trace' = Append(trace, [fn |-> "LogResponseBody", level |-> LevelInfo,
                             attrs |-> <<>>, done |-> Len(direct.body)])
  /\ UNCHANGED <<optVars, callVars, served, reqVars, w, header, respBody, direct,
                 pc, panicVars, lvl, sink, handlerStatus, mwWrites>>

(* the handler returns *)
HReturn ==
  /\ pc = "handler"
  /\ pc' = "deferred"
  /\ handlerStatus' = ww.code
  /\ UNCHANGED <<cfgVars, reqVars, respVars, log, panicVars, lvl, sink, mwWrites>>

(* the handler panics with value v *)
HPanic(v) ==
  /\ pc = "handler"
  /\ v \in next.panics
  /\ pc' = "deferred"
  /\ rec' = v
  /\ handlerStatus' = ww.code
  /\ UNCHANGED <<cfgVars, reqVars, respVars, log, rePanic, outPanic, lvl,
                 sink, mwWrites>>

----------------------------------------------------------------------------
(* The deferred function, first part: recover() and the panic block *)

(* the 500 written whenever no status was set, panic or not *)
writes500WithoutPanic(recovered, opts, wrap, req) ==
  /\ opts.RecoverPanics
  /\ wrap.code = 0
  /\ req.Connection # "Upgrade"

(* the 500 written without looking at the Connection header *)
writes500IgnoringUpgrade(recovered, opts, wrap, req) ==
  /\ recovered # None
  /\ opts.RecoverPanics
  /\ wrap.code = 0

(* "Return HTTP 500 if recover is enabled and no response status was set"
   src/middleware.go:60, 231; src/logger.go:347; src/unnamed/part_012:55 *)
writes500(recovered, opts, wrap, req) ==
  /\ recovered # None
  /\ opts.RecoverPanics
  /\ wrap.code = 0
  /\ req.Connection # "Upgrade"

(* "defer panic(rec)": src/middleware.go:64-67, 235-238; src/logger.go:351-354 *)
rePanics(recovered, opts) ==
  recovered # None /\ (recovered = ErrAbortHandler \/ ~opts.RecoverPanics)

(* panic(rec) called at once instead of deferred *)
afterRecoverPanicNow(recovered, opts) ==
  IF recovered # None /\ (recovered = ErrAbortHandler \/ ~opts.RecoverPanics)
  THEN "panicked" ELSE "classify"

(* where control goes after the panic block: the re-panic is deferred, so
   the function body always continues with the classification *)
afterRecover(recovered, opts) == "classify"

DeferRecover ==
  /\ pc = "deferred"
  /\ pc' = afterRecover(rec, o)
  /\ IF writes500(rec, o, ww, r)
     THEN /\ ww' = WrapWriteHeader(ww, StatusInternalServerError)
          /\ w' = WrapForwardHeader(ww, w, StatusInternalServerError, header)
          /\ mwWrites' = mwWrites + 1
     ELSE UNCHANGED <<ww, w, mwWrites>>
  /\ rePanic' = rePanics(rec, o)
  /\ outPanic' = IF pc' = "panicked" THEN rec ELSE outPanic
  /\ log' = IF variant = "lh" /\ rec # None /\ rec # ErrAbortHandler
            THEN [log EXCEPT !.Panic = rec] ELSE log
  /\ UNCHANGED <<cfgVars, reqVars, header, respBody, direct, rec, lvl, sink,
                 handlerStatus>>

----------------------------------------------------------------------------
(* Attributes of the record.  The values of the middleware's own
   attributes are tags naming what they hold. *)

(* the append that keeps attributes with an empty key *)
(* src/unnamed/part_012:158-165 *)
appendAttrs(attrs, newAttrs) ==
  attrs \o SelectSeq(newAttrs, LAMBDA a : a.key # <<>>)

(* strings.Cut(key, delimiter): the position of the first delimiter, 0 if
   the key has none *)
cutIndex(key, delimiter) ==
  IF \E i \in 1..Len(key) : key[i] = delimiter
  THEN CHOOSE i \in 1..Len(key) :
         key[i] = delimiter /\ \A j \in 1..(i - 1) : key[j] # delimiter
  ELSE 0

cutPrefix(key, delimiter) == SubSeq(key, 1, cutIndex(key, delimiter) - 1)
cutRest(key, delimiter) == SubSeq(key, cutIndex(key, delimiter) + 1, Len(key))

(* the keys of the map "nested" of groupAttrs *)
groupPrefixes(attrs, delimiter) ==
  {cutPrefix(attrs[i].key, delimiter) :
     i \in {j \in 1..Len(attrs) : cutIndex(attrs[j].key, delimiter) > 0}}

(* the orders in which a range over a map with these keys can visit them *)
mapOrders(keys) ==
  {ord \in [1..Cardinality(keys) -> keys] :
     \A i, j \in 1..Cardinality(keys) : ord[i] = ord[j] => i = j}

(* the grouping that keeps the text before the delimiter on the leaf *)
groupAttrsKeepingPrefix(attrs, delimiter, ord) ==
  LET leaves(p) ==
        SelectSeq(attrs, LAMBDA a : cutIndex(a.key, delimiter) > 0
                                    /\ cutPrefix(a.key, delimiter) = p)
  IN SelectSeq(attrs, LAMBDA a : cutIndex(a.key, delimiter) = 0)
     \o [i \in 1..Len(ord) |-> slogGroup(ord[i], leaves(ord[i]))]

(* src/unnamed/part_012:167-185; ord is the order in which the range over
   the map visits the groups *)
groupAttrs(attrs, delimiter, ord) ==
  LET found(a) == cutIndex(a.key, delimiter) > 0
      picked(p) == SelectSeq(attrs, LAMBDA a : found(a)
                                              /\ cutPrefix(a.key, delimiter) = p)
      leaves(p) == [i \in 1..Len(picked(p)) |->
                      [picked(p)[i] EXCEPT !.key = cutRest(@, delimiter)]]
  IN SelectSeq(attrs, LAMBDA a : ~found(a))
     \o [i \in 1..Len(ord) |-> slogGroup(ord[i], leaves(ord[i]))]

(* an Options.LogExtraAttrs: the one the field's comment gives, a curl
   attribute for the statuses 400 and 422 (src/options.go:73-86) *)
LogExtraAttrs(respStatus) ==
  IF respStatus \in {400, 422} THEN <<slogAttr(<<"curl">>, "curl")>> ELSE <<>>

(* src/unnamed/part_012:51-142: logAttrs before the grouping *)
formatAttrs(f, opts, recovered, status, unread, userAttrs) ==
  LET a0 == IF recovered # None
            THEN appendAttrs(<<>>, <<slogAttr(f.Error, "panic")>>) ELSE <<>>
      a1 == IF recovered # None /\ recovered # ErrAbortHandler
            THEN appendAttrs(a0, <<slogAttr(f.ErrorStackTrace, "stack")>>) ELSE a0
      a2 == appendAttrs(a1,
              <<slogAttr(f.Timestamp, "start"), slogAttr(f.Level, "lvl"),
                slogAttr(f.Message, "msg"), slogAttr(f.RequestURL, "url"),
                slogAttr(f.RequestMethod, "method"), slogAttr(f.RequestPath, "path"),
                slogAttr(f.RequestRemoteIP, "remoteAddr"),
                slogAttr(f.RequestHost, "host"), slogAttr(f.RequestScheme, "scheme"),
                slogAttr(f.RequestProto, "proto"),
                slogGroup(f.RequestHeaders, <<>>),
                slogAttr(f.RequestBytes, "contentLength"),
                slogAttr(f.RequestUserAgent, "userAgent"),
                slogAttr(f.RequestReferer, "referer"),
                slogGroup(f.ResponseHeaders, <<>>),
                slogAttr(f.ResponseStatus, "statusCode"),
                slogAttr(f.ResponseDuration, "duration"),
                slogAttr(f.ResponseBytes, "bytesWritten")>>)
      a3 == IF (opts.LogRequestBody \/ opts.LogExtraAttrs) /\ unread > 0
            THEN appendAttrs(a2, <<slogAttr(f.RequestBytesUnread, "n")>>) ELSE a2
      a4 == IF opts.LogRequestBody
            THEN appendAttrs(a3, <<slogAttr(f.RequestBody, "reqBody")>>) ELSE a3
      a5 == IF opts.LogResponseBody
            THEN appendAttrs(a4, <<slogAttr(f.ResponseBody, "respBody")>>) ELSE a4
      a6 == IF opts.LogExtraAttrs
            THEN appendAttrs(a5, LogExtraAttrs(status)) ELSE a5
  IN appendAttrs(a6, userAttrs)

(* the top-level attributes of the record in the other generations
   (src/middleware.go:48-156 and 227-327, src/handler.go:72-122) *)
plainAttrs(v, recovered, lg, shown) ==
  LET groups == IF shown
                THEN <<slogGroup(<<"request">>, <<>>), slogGroup(<<"response">>, <<>>)>>
                ELSE <<>>
      panics == IF recovered = None THEN <<>>
                ELSE IF v = "mwA" \/ recovered # ErrAbortHandler
                THEN <<slogAttr(<<"panic">>, "panic"),
                       slogAttr(<<"panicStack">>, "stack")>>
                ELSE IF v = "mwB" THEN <<slogAttr(<<"panic">>, "panic")>>
                ELSE <<>>
  IN IF v = "lh" THEN groups \o panics \o lg.Attrs
     ELSE panics \o groups \o lg.Attrs

(* the orders the grouping of the record may take: one, empty, when
   nothing is grouped *)
groupOrders(v, f, attrs) ==
  IF v = "fmt" /\ f.GroupDelimiter # ""
  THEN mapOrders(groupPrefixes(attrs, f.GroupDelimiter))
  ELSE {<<>>}

(* the attributes handed to logger.LogAttrs *)
recordAttrs(v, f, attrs, ord) ==
  IF v = "fmt" /\ f.GroupDelimiter # ""
  THEN groupAttrs(attrs, f.GroupDelimiter, ord)
  ELSE attrs

----------------------------------------------------------------------------
(* The deferred function, second part: level, filter, drain, record *)

(* the filter without the Options.Level floor *)
recordEnabledNoFloor(v, opts, lg, min, level) ==
  IF v = "lh" THEN HandlerEnabled(lg, level)
  ELSE LoggerEnabled(min, level)

(* the record reaches the underlying handler *)
recordEnabled(v, opts, lg, min, level) ==
  IF v = "lh" THEN HandlerEnabled(lg, level)
  ELSE LoggerEnabled(min, level) /\ ~(level < opts.Level)

(* the drain runs: before the filter in Logger.Handle (src/logger.go:364-370),
   after it in the other generations (src/middleware.go:102-109, 277-291,
   src/unnamed/part_012:101-132) *)
drains(v, opts, lg, enabled) ==
  IF v = "lh" THEN lg.LogRequestBody
  ELSE enabled /\ captureRequest(v, opts)

(* the panic attribute of the record *)
panicAttr(v, recovered, lg) ==
  CASE recovered = None -> None
    [] recovered # None /\ v = "mwA" -> "loga.Panic"
    [] recovered # None /\ v = "lh" -> lg.Panic
    [] OTHER -> recovered

(* the panicStack attribute: absent, an empty list or the frames.  The
   first generation appends it on every panic, with no frames for
   http.ErrAbortHandler; the later ones only for other values *)
stackAttr(v, recovered) ==
  CASE recovered = None -> "absent"
    [] recovered = ErrAbortHandler /\ v = "mwA" -> "empty"
    [] recovered = ErrAbortHandler /\ v # "mwA" -> "absent"
    [] OTHER -> "frames"

(* a record that shows its request and response groups whatever Concise
   and the status are *)
requestGroupShownAlways(v, opts, status) == TRUE

(* whether the record carries the request and response groups: in
   Logger.Handle's generation a concise record has them only from status
   400 on (src/handler.go:44, 66-69); the other generations always add
   them (src/middleware.go:324-325) *)
requestGroupShown(v, opts, status) ==
  ~(v = "lh" /\ opts.Concise /\ status < 400)

(* the request body attribute *)
reqBodyAttr(v, opts, lg, captured, contentType) ==
  CASE v = "mwA" -> IF opts.LogRequestBody THEN captured ELSE NoAttr
    [] v = "lh" -> IF lg.LogRequestBody THEN captured ELSE NoAttr
    [] OTHER -> IF opts.LogRequestBody
                THEN logBody(v, captured, contentType, opts) ELSE NoAttr

(* the response body attribute *)
respBodyAttr(v, opts, lg, captured, contentType) ==
  CASE v = "mwA" -> IF opts.LogResponseBody
                       /\ Contains(opts.LogResponseBodyContentType, contentType)
                    THEN captured ELSE NoAttr
    [] v = "lh" -> IF lg.LogResponseBody THEN captured ELSE NoAttr
    [] OTHER -> IF opts.LogResponseBody
                THEN logBody(v, captured, contentType, opts) ELSE NoAttr

DeferLog ==
  /\ pc = "classify"
  /\ pc' = "unwind"
  /\ lvl' = <<requestLevel(variant, r.Method, ww.code)>>
  /\ LET enabled == recordEnabled(variant, o, log, loggerLevel, lvl'[1])
         cp == CopyDiscard([rBody EXCEPT !.kind = log.ReqBodyReader], orig)
         drain == drains(variant, o, log, enabled)
         captured == IF drain
                     THEN reqBody \o teeTimes(cp.teed, log.ReqBodyTees)
                     ELSE reqBody
         lg == IF variant = "lh" /\ drain
               THEN [log EXCEPT !.ReqBodyFullyRead = (cp.n = 0)] ELSE log
         shown == requestGroupShown(variant, o, ww.code)
         attrs == IF variant = "fmt"
                  THEN formatAttrs(o.Format, o, rec, ww.code,
                                   IF drain THEN cp.n ELSE 0, log.Attrs)
                  ELSE plainAttrs(variant, rec, lg, shown)
     IN /\ orig' = IF drain THEN cp.orig ELSE orig
        /\ rBody' = IF drain THEN [cp.rBody EXCEPT !.kind = rBody.kind] ELSE rBody
        /\ reqBody' = captured
        /\ log' = lg
        /\ \E ord \in groupOrders(variant, o.Format, attrs) :
           sink' =
             IF enabled
             THEN Append(sink,
                    [msg |-> "Request finished", req |-> served,
                     level |-> lvl'[1], status |-> ww.code,
                     reqBody |-> IF shown
                                 THEN reqBodyAttr(variant, o, lg, captured, r.ContentType)
                                 ELSE NoAttr,
                     respBody |-> IF shown
                                  THEN respBodyAttr(variant, o, lg, respBody, header)
                                  ELSE NoAttr,
                     unread |-> IF drain /\ variant \in {"mwB", "fmt"} THEN cp.n ELSE 0,
                     fullyRead |-> IF variant = "lh" /\ lg.LogRequestBody /\ shown
                                   THEN <<lg.ReqBodyFullyRead>> ELSE <<>>,
                     panic |-> panicAttr(variant, rec, lg),
                     stack |-> stackAttr(variant, rec),
                     attrs |-> recordAttrs(variant, o.Format, attrs, ord)])
             ELSE sink
  /\ UNCHANGED <<cfgVars, hRead, hEnd, respVars, panicVars, handlerStatus, mwWrites>>

(* the deferred function returns: a pending panic(rec) fires, otherwise the
   middleware returns to the server *)
Unwind ==
  /\ pc = "unwind"
  /\ pc' = IF rePanic THEN "panicked" ELSE "returned"
  /\ outPanic' = IF rePanic THEN rec ELSE outPanic
  /\ UNCHANGED <<cfgVars, reqVars, respVars, log, rec, rePanic, lvl, sink,
                 handlerStatus, mwWrites>>

----------------------------------------------------------------------------
(* The context helpers called on their own *)

(* what a call of a helper on its own leaves alone besides log and ww *)
helperFrame == <<optVars, reqVars, w, header, respBody, direct, panicVars, pc,
                 lvl, sink, handlerStatus, mwWrites, trace, served, call,
                 quietVars, inflight>>

CallSetAttrs ==
  /\ call.fn = "SetAttrs"
  /\ ret = <<>>
  /\ LET res == setAttrs(call.gen, call.carries, log, call.attrs)
     IN ret' = <<res.out>> /\ log' = res.log
  /\ UNCHANGED <<helperFrame, ww>>

CallSetLevel ==
  /\ call.fn = "SetLevel"
  /\ ret = <<>>
  /\ LET res == setLevel(call.carries, log, call.level)
     IN ret' = <<res.out>> /\ log' = res.log
  /\ UNCHANGED <<helperFrame, ww>>

CallLogRequestBody ==
  /\ call.fn = "LogRequestBody"
  /\ ret = <<>>
  /\ LET res == logRequestBody(call.carries, log)
     IN ret' = <<res.out>> /\ log' = res.log
  /\ UNCHANGED <<helperFrame, ww>>

CallLogResponseBody ==
  /\ call.fn = "LogResponseBody"
  /\ ret = <<>>
  /\ LET res == logResponseBody(call.carries, log, ww)
     IN ret' = <<res.out>> /\ log' = res.log /\ ww' = res.ww
  /\ UNCHANGED helperFrame

NextHelpers ==
  \/ CallSetAttrs
  \/ CallSetLevel
  \/ CallLogRequestBody
  \/ CallLogResponseBody

----------------------------------------------------------------------------
(* Header attributes.  A header name is a sequence of characters; an
   http.Header maps canonical names to their values, the empty sequence
   for a name it does not hold. *)

toUpper(c) ==
  CASE c = "x" -> "X" [] c = "a" -> "A" [] c = "b" -> "B" [] c = "c" -> "C"
    [] c = "s" -> "S" [] OTHER -> c

toLower(c) ==
  CASE c = "X" -> "x" [] c = "A" -> "a" [] c = "B" -> "b" [] c = "C" -> "c"
    [] c = "S" -> "s" [] OTHER -> c

(* textproto.CanonicalMIMEHeaderKey: the first letter and every letter
   after a hyphen in upper case, the others in lower case *)
CanonicalMIMEHeaderKey(h) ==
  [i \in 1..Len(h) |->
     IF i = 1 \/ h[i - 1] = "-" THEN toUpper(h[i]) ELSE toLower(h[i])]

(* http.Header.Values(h) *)
HeaderValues(hdr, h) ==
  IF CanonicalMIMEHeaderKey(h) \in DOMAIN hdr
  THEN hdr[CanonicalMIMEHeaderKey(h)] ELSE <<>>

(* the loop that renders only the first value of a header *)
RECURSIVE getHeaderAttrsFirstValue(_, _)
getHeaderAttrsFirstValue(hdr, headers) ==
  IF headers = <<>> THEN <<>>
  ELSE LET h == Head(headers)
           vals == HeaderValues(hdr, h)
           rest == getHeaderAttrsFirstValue(hdr, Tail(headers))
       IN IF Len(vals) >= 1
          THEN <<[key |-> h, kind |-> "String", value |-> vals[1]]>> \o rest
          ELSE rest

(* src/middleware.go:337-348 *)
RECURSIVE getHeaderAttrs(_, _)
getHeaderAttrs(hdr, headers) ==
  IF headers = <<>> THEN <<>>
  ELSE LET h == Head(headers)
           vals == HeaderValues(hdr, h)
           rest == getHeaderAttrs(hdr, Tail(headers))
       IN IF Len(vals) = 1
          THEN <<[key |-> h, kind |-> "String", value |-> vals[1]]>> \o rest
          ELSE IF Len(vals) > 1
          THEN <<[key |-> h, kind |-> "Any", value |-> vals]>> \o rest
          ELSE rest

CallGetHeaderAttrs ==
  /\ call.fn = "getHeaderAttrs"
  /\ ret = <<>>
  /\ ret' = <<getHeaderAttrs(call.header, call.headers)>>
  /\ UNCHANGED <<requestVars, call>>

----------------------------------------------------------------------------
(* Schemas.  Keys are token sequences as for the formats, with "." and ":"
   as tokens of their own. *)

(* src/schema.go:61-89 *)
SchemaECS ==
  [Timestamp |-> <<"@timestamp">>,
   Level |-> <<"log", ".", "level">>,
   Message |-> <<"message">>,
   ErrorMessage |-> <<"error", ".", "message">>,
   ErrorType |-> <<"error", ".", "type">>,
   ErrorStackTrace |-> <<"error", ".", "stack_trace">>,
   SourceFile |-> <<"log", ".", "origin", ".", "file", ".", "name">>,
   SourceLine |-> <<"log", ".", "origin", ".", "file", ".", "line">>,
   SourceFunction |-> <<"log", ".", "origin", ".", "function">>,
   RequestURL |-> <<"url", ".", "full">>,
   RequestMethod |-> <<"http", ".", "request", ".", "method">>,
   RequestPath |-> <<"url", ".", "path">>,
   RequestRemoteIP |-> <<"client", ".", "ip">>,
   RequestHost |-> <<"url", ".", "domain">>,
   RequestScheme |-> <<"url", ".", "scheme">>,
   RequestProto |-> <<"http", ".", "version">>,
   RequestHeaders |-> <<"http", ".", "request", ".", "headers">>,
   RequestBody |-> <<"http", ".", "request", ".", "body", ".", "content">>,
   RequestBytes |-> <<"http", ".", "request", ".", "body", ".", "bytes">>,
   RequestBytesUnread |-> <<"http", ".", "request", ".", "body", ".", "unread", ".", "bytes">>,
   RequestUserAgent |-> <<"user_agent", ".", "original">>,
   RequestReferer |-> <<"http", ".", "request", ".", "referrer">>,
   ResponseHeaders |-> <<"http", ".", "response", ".", "headers">>,
   ResponseBody |-> <<"http", ".", "response", ".", "body", ".", "content">>,
   ResponseStatus |-> <<"http", ".", "response", ".", "status_code">>,
   ResponseDuration |-> <<"event", ".", "duration">>,
   ResponseBytes |-> <<"http", ".", "response", ".", "body", ".", "bytes">>,
   GroupDelimiter |-> ""]

(* src/schema.go:95-123 *)
SchemaOTEL ==
  [Timestamp |-> <<"timestamp">>,
   Level |-> <<"severity_text">>,
   Message |-> <<"body">>,
   ErrorMessage |-> <<"error", ".", "message">>,
   ErrorType |-> <<"error", ".", "type">>,
   ErrorStackTrace |-> <<"exception", ".", "stacktrace">>,
   SourceFile |-> <<"code", ".", "filepath">>,
   SourceLine |-> <<"code", ".", "lineno">>,
   SourceFunction |-> <<"code", ".", "function">>,
   RequestURL |-> <<"url", ".", "full">>,
   RequestMethod |-> <<"http", ".", "request", ".", "method">>,
   RequestPath |-> <<"url", ".", "path">>,
   RequestRemoteIP |-> <<"client", ".", "address">>,
   RequestHost |-> <<"server", ".", "address">>,
   RequestScheme |-> <<"url", ".", "scheme">>,
   RequestProto |-> <<"network", ".", "protocol", ".", "version">>,
   RequestHeaders |-> <<"http", ".", "request", ".", "header">>,
   RequestBody |-> <<"http", ".", "request", ".", "body", ".", "content">>,
   RequestBytes |-> <<"http", ".", "request", ".", "body", ".", "size">>,
   RequestBytesUnread |-> <<"http", ".", "request", ".", "body", ".", "unread", ".", "size">>,
   RequestUserAgent |-> <<"user_agent", ".", "original">>,
   RequestReferer |-> <<"http", ".", "request", ".", "header", ".", "referer">>,
   ResponseHeaders |-> <<"http", ".", "response", ".", "header">>,
   ResponseBody |-> <<"http", ".", "response", ".", "body", ".", "content">>,
   ResponseStatus |-> <<"http", ".", "response", ".", "status_code">>,
   ResponseDuration |-> <<"http", ".", "server", ".", "request", ".", "duration">>,
   ResponseBytes |-> <<"http", ".", "response", ".", "body", ".", "size">>,
   GroupDelimiter |-> ""]

(* src/schema.go:131-160 *)
SchemaGCP ==
  [Timestamp |-> <<"timestamp">>,
   Level |-> <<"severity">>,
   Message |-> <<"message">>,
   ErrorMessage |-> <<"error">>,
   ErrorType |-> <<"error_type">>,
   ErrorStackTrace |-> <<"stack_trace">>,
   SourceFile |-> <<"logging", ".", "googleapis", ".", "com/sourceLocation", ":", "file">>,
   SourceLine |-> <<"logging", ".", "googleapis", ".", "com/sourceLocation", ":", "line">>,
   SourceFunction |-> <<"logging", ".", "googleapis", ".", "com/sourceLocation", ":", "function">>,
   RequestURL |-> <<"httpRequest", ":", "requestUrl">>,
   RequestMethod |-> <<"httpRequest", ":", "requestMethod">>,
   RequestPath |-> <<"httpRequest", ":", "requestPath">>,
   RequestRemoteIP |-> <<"httpRequest", ":", "remoteIp">>,
   RequestHost |-> <<"httpRequest", ":", "host">>,
   RequestScheme |-> <<"httpRequest", ":", "scheme">>,
   RequestProto |-> <<"httpRequest", ":", "protocol">>,
   RequestHeaders |-> <<"httpRequest", ":", "requestHeaders">>,
   RequestBody |-> <<"httpRequest", ":", "requestBody">>,
   RequestBytes |-> <<"httpRequest", ":", "requestSize">>,
   RequestBytesUnread |-> <<"httpRequest", ":", "requestUnreadSize">>,
   RequestUserAgent |-> <<"httpRequest", ":", "userAgent">>,
   RequestReferer |-> <<"httpRequest", ":", "referer">>,
   ResponseHeaders |-> <<"httpRequest", ":", "responseHeaders">>,
   ResponseBody |-> <<"httpRequest", ":", "responseBody">>,
   ResponseStatus |-> <<"httpRequest", ":", "status">>,
   ResponseDuration |-> <<"httpRequest", ":", "latency">>,
   ResponseBytes |-> <<"httpRequest", ":", "responseSize">>,
   GroupDelimiter |-> ":"]

(* the zero Schema *)
SchemaZero ==
  [Timestamp |-> <<>>,
   Level |-> <<>>,
   Message |-> <<>>,
   ErrorMessage |-> <<>>,
   ErrorType |-> <<>>,
   ErrorStackTrace |-> <<>>,
   SourceFile |-> <<>>,
   SourceLine |-> <<>>,
   SourceFunction |-> <<>>,
   RequestURL |-> <<>>,
   RequestMethod |-> <<>>,
   RequestPath |-> <<>>,
   RequestRemoteIP |-> <<>>,
   RequestHost |-> <<>>,
   RequestScheme |-> <<>>,
   RequestProto |-> <<>>,
   RequestHeaders |-> <<>>,
   RequestBody |-> <<>>,
   RequestBytes |-> <<>>,
   RequestBytesUnread |-> <<>>,
   RequestUserAgent |-> <<>>,
   RequestReferer |-> <<>>,
   ResponseHeaders |-> <<>>,
   ResponseBody |-> <<>>,
   ResponseStatus |-> <<>>,
   ResponseDuration |-> <<>>,
   ResponseBytes |-> <<>>,
   GroupDelimiter |-> ""]

(* the transform without the name of the unread bytes *)
SchemaConciseWithoutUnread(s, concise) ==
  IF ~concise THEN s
  ELSE [SchemaZero EXCEPT !.ErrorMessage = s.ErrorMessage,
                          !.ErrorStackTrace = s.ErrorStackTrace,
                          !.RequestHeaders = s.RequestHeaders,
                          !.RequestBody = s.RequestBody,
                          !.ResponseHeaders = s.ResponseHeaders,
                          !.ResponseBody = s.ResponseBody,
                          !.GroupDelimiter = s.GroupDelimiter]

(* src/schema.go:228-243 *)
SchemaConcise(s, concise) ==
  IF ~concise THEN s
  ELSE [SchemaZero EXCEPT !.ErrorMessage = s.ErrorMessage,
                          !.ErrorStackTrace = s.ErrorStackTrace,
                          !.RequestHeaders = s.RequestHeaders,
                          !.RequestBody = s.RequestBody,
                          !.RequestBytesUnread = s.RequestBytesUnread,
                          !.ResponseHeaders = s.ResponseHeaders,
                          !.ResponseBody = s.ResponseBody,
                          !.GroupDelimiter = s.GroupDelimiter]

Schemas == {SchemaECS, SchemaOTEL, SchemaGCP}

(* slog.Attr{}: handlers leave it out of the record *)
emptyAttr == [key |-> <<>>, value |-> "", members |-> <<>>]

(* the two strings strings.Cut returns: the whole and the empty string when
   the delimiter does not occur *)
cutBefore(key, delimiter) ==
  IF cutIndex(key, delimiter) = 0 THEN key ELSE cutPrefix(key, delimiter)
cutAfter(key, delimiter) ==
  IF cutIndex(key, delimiter) = 0 THEN <<>> ELSE cutRest(key, delimiter)

(* src/schema.go:164-222.  source tells what a.Value holds under the key
   "source": "none" when it is not a *slog.Source, "httplog" when its File
   lies in /go-chi/httplog/, "app" otherwise. *)
ReplaceAttr(s, groups, a, source) ==
  IF Len(groups) > 0 THEN a
  ELSE CASE a.key = <<"time">> ->
              IF s.Timestamp = <<>> THEN a ELSE slogAttr(s.Timestamp, "RFC3339")
         [] a.key = <<"level">> ->
              IF s.Level = <<>> THEN a ELSE slogAttr(s.Level, a.value)
         [] a.key = <<"msg">> ->
              IF s.Message = <<>> THEN a ELSE slogAttr(s.Message, a.value)
         [] a.key = <<"source">> ->
              IF source = "none" THEN a
              ELSE IF s.SourceFile = <<>>
              THEN IF source = "httplog" THEN emptyAttr ELSE a
              ELSE IF s.GroupDelimiter = ""
              THEN slogGroup(<<>>, <<slogAttr(s.SourceFile, "File"),
                                     slogAttr(s.SourceLine, "Line"),
                                     slogAttr(s.SourceFunction, "Function")>>)
              ELSE slogGroup(cutBefore(s.SourceFile, s.GroupDelimiter),
                     <<slogAttr(cutAfter(s.SourceFile, s.GroupDelimiter), "File"),
                       slogAttr(cutAfter(s.SourceLine, s.GroupDelimiter), "Line"),
                       slogAttr(cutAfter(s.SourceFunction, s.GroupDelimiter),
                                "Function")>>)
         [] a.key = <<"error">> ->
              IF s.GroupDelimiter = "" THEN slogAttr(s.ErrorMessage, a.value)
              ELSE IF cutIndex(s.ErrorMessage, s.GroupDelimiter) = 0
              THEN slogAttr(s.ErrorMessage, a.value)
              ELSE slogGroup(cutBefore(s.ErrorMessage, s.GroupDelimiter),
                     <<slogAttr(cutAfter(s.ErrorMessage, s.GroupDelimiter),
                                a.value)>>)
         [] OTHER -> a

CallReplaceAttr ==
  /\ call.fn = "ReplaceAttr"
  /\ ret = <<>>
  /\ ret' = <<ReplaceAttr(call.schema, call.groups, call.a, call.source)>>
  /\ UNCHANGED <<requestVars, call>>

CallAppendAttrs ==
  /\ call.fn = "appendAttrs"
  /\ ret = <<>>
  /\ ret' = <<appendAttrs(call.attrs, call.newAttrs)>>
  /\ UNCHANGED <<requestVars, call>>

(* groupAttrs called on its own; the range over the map picks the order of
   the groups *)
CallGroupAttrs ==
  /\ call.fn = "groupAttrs"
  /\ ret = <<>>
  /\ \E ord \in mapOrders(groupPrefixes(call.attrs, call.delimiter)) :
       ret' = <<groupAttrs(call.attrs, call.delimiter, ord)>>
  /\ UNCHANGED <<requestVars, call>>

(* s.Concise(concise), and Concise(concise) again on the schema returned;
   ret collects the schemas returned, call.receiver is what the receiver
   of the first call holds, call.schema what it held at the call.  Concise
   assigns to no field of its receiver. *)
CallConcise ==
  /\ call.fn = "Concise"
  /\ Len(ret) < MaxCalls
  /\ LET s == IF ret = <<>> THEN call.receiver ELSE ret[Len(ret)]
     IN ret' = Append(ret, SchemaConcise(s, call.concise))
  /\ UNCHANGED <<requestVars, call>>

(* strings.ReplaceAll(v, old, new) for a one-character old *)
RECURSIVE ReplaceAll(_, _, _)
ReplaceAll(v, old, new) ==
  IF v = <<>> THEN <<>>
  ELSE (IF Head(v) = old THEN new ELSE <<Head(v)>>)
       \o ReplaceAll(Tail(v), old, new)

(* the quoting that leaves single quotes as they are *)
singleQuotedUnescaped(v) == <<"'">> \o v \o <<"'">>

(* src/unnamed/part_026:77-79, src/unnamed/part_025:39-41 *)
singleQuoted(v) ==
  <<"'">> \o ReplaceAll(v, "'", <<"'", "\\", "'", "'">>) \o <<"'">>

(* src/unnamed/part_026:81-90 *)
requestURL(req) ==
  <<IF req.TLS THEN "https" ELSE "http", "://">> \o req.Host \o req.URL

RECURSIVE Concat(_)
Concat(ss) == IF ss = <<>> THEN <<>> ELSE Head(ss) \o Concat(Tail(ss))

(* src/unnamed/part_026:54-75 (and the method log.curl of
   src/unnamed/part_025:8-30, the same text with the captured request body
   for the argument); ord is the order in which the range over req.Header visits
   the names.  The text is a sequence of characters, with the method, the
   scheme and the constant pieces of the format strings as single tokens. *)
CURL(req, data, ord) ==
  <<"curl">>
  \o (IF req.Method # "GET" /\ req.Method # "POST"
      THEN <<" -X ", req.Method>> ELSE <<>>)
  \o <<" ">> \o singleQuoted(requestURL(req))
  \o (IF req.Method = "POST"
      THEN <<" --data-raw ">> \o singleQuoted(data) ELSE <<>>)
  \o Concat([i \in 1..Len(ord) |->
        Concat([j \in 1..Len(req.Header[ord[i]]) |->
          <<" -H ">>
          \o singleQuoted(ord[i] \o <<": ">> \o req.Header[ord[i]][j])])])

CallCURL ==
  /\ call.fn = "CURL"
  /\ ret = <<>>
  /\ \E ord \in mapOrders(DOMAIN call.req.Header) :
       ret' = <<CURL(call.req, call.reqBody, ord)>>
  /\ UNCHANGED <<requestVars, call>>

(* a second call of CURL with the same request and body; the range over
   req.Header starts anew *)
CallCURLAgain ==
  /\ call.fn = "CURL"
  /\ Len(ret) = 1
  /\ \E ord \in mapOrders(DOMAIN call.req.Header) :
       ret' = Append(ret, CURL(call.req, call.reqBody, ord))
  /\ UNCHANGED <<requestVars, call>>

NextCurlTwice ==
  \/ CallCURL
  \/ CallCURLAgain

NextSuppress ==
  \/ CallReplaceAttr
  \/ CallAppendAttrs

----------------------------------------------------------------------------
(* The header fields of src/httplog.go and src/httpzaplog.go.  A header
   name is a sequence of characters; a run of lower-case letters that no
   operation takes apart may stand as one token.  A logged value is the
   sequence of the pieces written into it. *)

(* strings.ToLower *)
ToLower(name) == [i \in 1..Len(name) |-> toLower(name[i])]

hAuthorization == <<"A", "uthorization">>
hCookie == <<"C", "ookie">>
hSetCookie == <<"S", "et", "-", "C", "ookie">>

(* fmt.Sprintf("[%s]", strings.Join(v, "], [")) *)
RECURSIVE Join(_, _)
Join(v, sep) ==
  IF Len(v) = 0 THEN <<>>
  ELSE IF Len(v) = 1 THEN <<v[1]>>
  ELSE <<v[1], sep>> \o Join(Tail(v), sep)

(* the value headerLogField stores for the header k with the values v;
   src/httplog.go:252-276, src/httpzaplog.go:178-196 *)
headerValue(k, v, skipHeaders) ==
  LET plain == IF Len(v) = 1 THEN <<v[1]>>
               ELSE <<"[">> \o Join(v, "], [") \o <<"]">>
      hidden == ToLower(hAuthorization) = k \/ ToLower(hCookie) = k
                \/ ToLower(hSetCookie) = k
      skipped == \E i \in 1..Len(skipHeaders) : k = skipHeaders[i]
  IN IF hidden \/ skipped THEN <<"***">> ELSE plain

(* src/httplog.go:248-279: the attributes in the order of the range over
   the header map *)
RECURSIVE headerLogField(_, _, _)
headerLogField(hdr, hide, ord) ==
  IF ord = <<>> THEN <<>>
  ELSE LET k == ToLower(Head(ord))
           v == hdr[Head(ord)]
           rest == headerLogField(hdr, hide, Tail(ord))
       IN IF Len(v) = 0 THEN rest
          ELSE <<slogAttr(k, headerValue(k, v, hide))>> \o rest

(* src/httpzaplog.go:175-199: the same fields as a map; the names of a
   received header are canonical, so no two of them share a lower-case
   form and the order of the range does not matter *)
zapHeaderLogField(hdr, skipHeaders) ==
  LET present == {n \in DOMAIN hdr : Len(hdr[n]) > 0}
      nameOf(k) == CHOOSE n \in present : ToLower(n) = k
  IN [k \in {ToLower(n) : n \in present} |->
        headerValue(k, hdr[nameOf(k)], skipHeaders)]

CallHeaderLogField ==
  /\ call.fn = "headerLogField"
  /\ ret = <<>>
  /\ \E ord \in mapOrders(DOMAIN call.header) :
       ret' = <<IF call.gen = "httplog"
                THEN headerLogField(call.header, call.hide, ord)
                ELSE zapHeaderLogField(call.header, call.hide)>>
  /\ UNCHANGED <<requestVars, call>>

----------------------------------------------------------------------------
(* The log entry of src/httplog.go.  ret holds the loggers and handlers
   after each call: handlers is the list of slog.Handler objects with the
   attributes each was given by WithAttrs, entryLogger the handler of
   entry.Logger, log the handler of the logger LogEntry returned (0 for
   the discarding logger it builds when the context carries no entry). *)

(* slog's argsToAttrSlice: an argument that is an Attr is taken as it is,
   every other argument that is not a string becomes an attribute with the
   key "!BADKEY"; for a []slog.Attr its value is the group of the slice *)
argsToAttrSlice(args) ==
  [i \in 1..Len(args) |->
     IF args[i].kind = "Attr" THEN args[i].attr
     ELSE slogGroup(<<"!BADKEY">>, args[i].attrs)]

(* Logger.With(args...) on the logger whose handler is h; the handler of
   src/httplog_test.go:85-88 stores the attributes in itself, the one of
   src/unnamed/part_008:94-96 (and slog's own handlers) returns a copy *)
With(heap, h, args, handlerKind) ==
  IF Len(args) = 0 THEN [heap |-> heap, handler |-> h]
  ELSE IF handlerKind = "storing"
  THEN [heap |-> [heap EXCEPT !.handlers[h] = argsToAttrSlice(args)],
        handler |-> h]
  ELSE [heap |-> [heap EXCEPT !.handlers = Append(@, argsToAttrSlice(args))],
        handler |-> Len(heap.handlers) + 1]

(* src/httplog.go:331-345 *)
CallLogEntry ==
  /\ call.fn = "LogEntrySetFields"
  /\ ret = <<>>
  /\ ret' = <<[handlers |-> <<(<<>>)>>, entryLogger |-> 1,
               log |-> IF call.carries THEN 1 ELSE 0]>>
  /\ UNCHANGED <<requestVars, call>>

(* src/httplog.go:353-363; ord is the order of the range over fields *)
CallLogEntrySetFields ==
  /\ call.fn = "LogEntrySetFields"
  /\ Len(ret) = 1
  /\ \E ord \in mapOrders(DOMAIN call.fields) :
       LET attrs == [i \in 1..Len(ord) |->
                       slogAttr(<<ord[i]>>, call.fields[ord[i]])]
           res == With(ret[1], ret[1].entryLogger,
                       <<[kind |-> "AttrSlice", attrs |-> attrs]>>,
                       call.handlerKind)
       IN ret' = Append(ret,
            IF call.carries
            THEN [res.heap EXCEPT !.entryLogger = res.handler]
            ELSE ret[1])
  /\ UNCHANGED <<requestVars, call>>

NextLogEntry ==
  \/ CallLogEntry
  \/ CallLogEntrySetFields

----------------------------------------------------------------------------
(* Handler of src/httplog.go and the cooldown of the quiet-down routes.
   call holds what Handler was built with: the skip paths and the Options
   QuietDownRoutes and QuietDownPeriod.  coolDownMu is held only within
   ReadCoolDown (RLock) and within WriteCoolDown (Lock), each one step, so
   it is free between any two steps. *)

(* src/httplog.go:183-186 *)
routePath(path) == IF path = "" THEN "/" ELSE path

quietFrame == <<requestVars0, call, ret, inflight>>

(* a request reaches the middleware; at will be the time at which
   rInCooldown returned false for it *)
Arrive(path) ==
  /\ call.fn = "Handler"
  /\ Len(requests) < MaxArrivals
  /\ requests' = Append(requests,
       [path |-> path, arrived |-> now, pc |-> "entry", ok |-> FALSE,
        coolDownTime |-> 0, quiet |-> FALSE, skipped |-> FALSE,
        logged |-> FALSE, at |-> 0, ranOn |-> None])
  /\ UNCHANGED <<quietFrame, coolDowns, now>>

(* a request reaches the middleware while no other is under way *)
ArriveAlone(path) ==
  /\ \A i \in 1..Len(requests) : requests[i].pc = "done"
  /\ Arrive(path)

(* src/httplog.go:69-76 and 182-189: the skip list and the route list *)
HandlerEntry(i) ==
  /\ requests[i].pc = "entry"
  /\ LET q == requests[i]
     IN requests' = [requests EXCEPT ![i] =
          IF call.skipPaths # {} /\ q.path \in call.skipPaths
          THEN [q EXCEPT !.pc = "serve", !.skipped = TRUE]
          ELSE IF routePath(q.path) \notin call.QuietDownRoutes
          THEN [q EXCEPT !.pc = "newEntry", !.at = now]
          ELSE [q EXCEPT !.pc = "read"]]
  /\ UNCHANGED <<quietFrame, coolDowns, now>>

(* src/httplog.go:190-192 *)
ReadCoolDown(i) ==
  /\ requests[i].pc = "read"
  /\ LET q == requests[i]
         found == coolDowns[routePath(q.path)]
     IN requests' = [requests EXCEPT ![i] =
          [q EXCEPT !.pc = "since", !.ok = (found # <<>>),
                    !.coolDownTime = IF found # <<>> THEN found[1] ELSE 0]]
  /\ UNCHANGED <<quietFrame, coolDowns, now>>

(* src/httplog.go:193-197: time.Since(coolDownTime) < QuietDownPeriod *)
CheckSince(i) ==
  /\ requests[i].pc = "since"
  /\ LET q == requests[i]
     IN requests' = [requests EXCEPT ![i] =
          IF q.ok /\ now - q.coolDownTime < call.QuietDownPeriod
          THEN [q EXCEPT !.pc = "serve", !.quiet = TRUE]
          ELSE [q EXCEPT !.pc = "write"]]
  /\ UNCHANGED <<quietFrame, coolDowns, now>>

(* src/httplog.go:198-201 *)
WriteCoolDown(i) ==
  /\ requests[i].pc = "write"
  /\ coolDowns' = [coolDowns EXCEPT ![routePath(requests[i].path)] =
                     <<now + call.QuietDownPeriod>>]
  /\ requests' = [requests EXCEPT ![i].pc = "newEntry", ![i].at = now]
  /\ UNCHANGED <<quietFrame, now>>

(* src/httplog.go:72-73 and 79-80: next.ServeHTTP(w, r), no entry *)
ServeUnlogged(i) ==
  /\ requests[i].pc = "serve"
  /\ requests' = [requests EXCEPT ![i].pc = "done", ![i].ranOn = "w"]
  /\ UNCHANGED <<quietFrame, coolDowns, now>>

(* src/httplog.go:83-98: the entry, the handler on the wrapped writer, the
   deferred entry.Write *)
ServeLogged(i) ==
  /\ requests[i].pc = "newEntry"
  /\ requests' = [requests EXCEPT ![i].pc = "done", ![i].ranOn = "ww",
                                  ![i].logged = TRUE]
  /\ UNCHANGED <<quietFrame, coolDowns, now>>

(* time passes *)
Tick ==
  /\ call.fn = "Handler"
  /\ now < MaxTime
  /\ now' = now + 1
  /\ UNCHANGED <<quietFrame, coolDowns, requests>>

(* time passes between two requests *)
TickIdle ==
  /\ \A i \in 1..Len(requests) : requests[i].pc = "done"
  /\ Tick

HandlerSteps ==
  \E i \in 1..Len(requests) :
    \/ HandlerEntry(i)
    \/ ReadCoolDown(i)
    \/ CheckSince(i)
    \/ WriteCoolDown(i)
    \/ ServeUnlogged(i)
    \/ ServeLogged(i)

(* requests one after the other *)
NextQuiet ==
  \/ \E path \in Paths : ArriveAlone(path)
  \/ HandlerSteps
  \/ TickIdle

(* requests served concurrently, one goroutine each *)
NextRace ==
  \/ \E path \in {"/noisy", "/other"} : Arrive(path)
  \/ HandlerSteps
  \/ Tick

----------------------------------------------------------------------------
(* Specifications *)

HandlerStep ==
  \/ HRead
  \/ \E ct \in {ctJSON, ctJSONUtf8, ctPNG} : HSetHeader(ct)
  \/ \E code \in Statuses : HWriteHeader(code)
  \/ \E b \in Bytes : HWrite(b)
  \/ \E level \in Levels : SetLevel(level)
  \/ HReturn
  \/ \E v \in PanicValues : HPanic(v)

Next ==
  \/ Entry
  \/ HandlerStep
  \/ DeferRecover
  \/ DeferLog
  \/ Unwind

(* attributes a caller hands to SetAttrs *)
attrU == slogAttr(<<"u">>, "1")
attrV == slogAttr(<<"v">>, "2")
attrGX == slogAttr(<<"g", ".", "x">>, "3")
attrE == slogAttr(<<>>, "4")

(* the server hands the next request to the middleware: a new call of the
   handler function, with its own ctx, log, ww and buffers *)
NextRequest ==
  /\ pc \in {"returned", "panicked"}
  /\ served < MaxRequests - 1
  /\ served' = served + 1
  /\ pc' = "entry"
  /\ orig' = [data |-> body.data, end |-> body.end, done |-> FALSE]
  /\ rBody' = [kind |-> "orig", buf |-> <<>>]
  /\ reqBody' = <<>>
  /\ hRead' = <<>>
  /\ hEnd' = None
  /\ ww' = NewWrapResponseWriter
  /\ w' = NewWriter
  /\ header' = <<>>
  /\ respBody' = <<>>
  /\ direct' = NewWriter
  /\ log' = [Level |-> o.Level, LogRequestBody |-> FALSE, LogResponseBody |-> FALSE,
             Panic |-> None, ReqBodyFullyRead |-> FALSE,
             Attrs |-> <<>>, ReqBodyReader |-> "orig", ReqBodyTees |-> 0]
  /\ rec' = None
  /\ rePanic' = FALSE
  /\ outPanic' = None
  /\ lvl' = <<>>
  /\ handlerStatus' = 0
  /\ mwWrites' = 0
  /\ trace' = <<>>
  /\ UNCHANGED <<optVars, callVars, sink>>

(* the calls of the context helpers a handler can make *)
HelperStep ==
  \E as \in SeqsUpTo({attrU, attrV, attrGX, attrE}, MaxAttrs) : SetAttrs(as)

NextHelped ==
  \/ Next
  \/ HelperStep

CaptureStep ==
  \/ LogRequestBody
  \/ LogResponseBody

NextCapturing ==
  \/ Next
  \/ CaptureStep

NextServing ==
  \/ NextHelped
  \/ NextRequest

(* every generation, level and recovery setting; a handler that writes any
   status and panics with any value; no body capture *)
Init ==
  InitWith(Variants, Levels, {LevelDebug, LevelError}, BOOLEAN,
           {[req |-> FALSE, resp |-> FALSE, extra |-> FALSE]},
           {"GET", "OPTIONS"}, {"", "Upgrade"}, {ctEmpty},
           {<<>>}, {0}, {ECS}, {<<>>}, {"EOF"},
           [statuses |-> Statuses, contentTypes |-> {ctJSON}, maxWrite |-> 1, maxRead |-> MaxBody + 1,
            panics |-> PanicValues, levels |-> {LevelDebug, LevelWarn},
            attrs |-> {}])

Spec == Init /\ [][Next]_vars

(* the response side: capture on and off, a record that is emitted or
   filtered, a handler that writes up to MaxResp bytes *)
InitResp ==
  InitWith(Variants, {LevelInfo, LevelError}, {LevelDebug}, BOOLEAN,
           {[req |-> q, resp |-> c, extra |-> FALSE] : q, c \in BOOLEAN},
           {"GET"}, {""}, {ctEmpty},
           {<<>>}, {0}, {ECS}, {<<>>}, {"EOF"},
           [statuses |-> {200, 500}, contentTypes |-> {ctJSON, ctPNG},
            maxWrite |-> MaxResp, maxRead |-> MaxBody + 1, panics |-> {"boom"}, levels |-> {LevelError},
            attrs |-> {}])

SpecResp == InitResp /\ [][Next]_vars

(* the request side: bodies up to MaxBody bytes that end or fail, capture
   on and off, a record that is emitted (status 400) or filtered *)
InitReq ==
  InitWith(Variants, {LevelWarn}, {LevelDebug}, {TRUE},
           {[req |-> c, resp |-> FALSE, extra |-> e] : c, e \in BOOLEAN},
           {"GET"}, {""}, {ctEmpty},
           {<<>>}, {0}, {ECS}, SeqsUpTo(Bytes, MaxBody), {"EOF", "ERR"},
           [statuses |-> {400}, contentTypes |-> {ctJSON},
            maxWrite |-> 1, maxRead |-> MaxBody + 1, panics |-> {"boom"}, levels |-> {LevelDebug},
            attrs |-> {}])

SpecReq == InitReq /\ [][Next]_vars

(* body rendering: both captures on, request and response Content-Types
   inside and outside the allow-list, the default list and a custom one *)
InitBody ==
  InitWith(Variants, {LevelInfo}, {LevelDebug}, {TRUE},
           {[req |-> TRUE, resp |-> TRUE, extra |-> FALSE]},
           {"GET"}, {""}, {ctEmpty, ctJSONUtf8, ctPNG},
           {<<>>, <<ctJSON>>}, {0}, {ECS}, SeqsUpTo(Bytes, MaxBody), {"EOF"},
           [statuses |-> {200}, contentTypes |-> {ctJSON, ctPNG},
            maxWrite |-> MaxResp, maxRead |-> MaxBody + 1, panics |-> {"boom"}, levels |-> {LevelError},
            attrs |-> {}])

SpecBody == InitBody /\ [][Next]_vars

(* a request body one byte longer than the default LogBodyMaxLen *)
longBody == [i \in 1..(defaultLogBodyMaxLen + 1) |-> "0"]

(* truncation: LogBodyMaxLen negative, unset and positive, bodies shorter
   than, as long as and longer than the limit, and one longer than the
   default limit; the handler reads at most one byte and the deferred
   drain mirrors the rest *)
InitTrunc ==
  InitWith(Variants, {LevelInfo}, {LevelDebug}, {TRUE},
           {[req |-> TRUE, resp |-> TRUE, extra |-> FALSE]},
           {"GET"}, {""}, {ctJSON},
           {<<>>}, {-1, 0, 1, 2}, {ECS},
           SeqsUpTo({"0"}, MaxBody) \cup {longBody}, {"EOF"},
           [statuses |-> {200}, contentTypes |-> {ctJSON},
            maxWrite |-> MaxResp, maxRead |-> 1, panics |-> {"boom"},
            levels |-> {LevelError},
            attrs |-> {}])

SpecTrunc == InitTrunc /\ [][Next]_vars

hXA == <<"X", "-", "A">>
hxa == <<"x", "-", "a">>
hXB == <<"X", "-", "B">>
hXC == <<"X", "-", "C">>

(* getHeaderAttrs on its own: headers holding up to MaxVals values under
   X-A and X-B and at most one under X-C, allow-lists of up to MaxAllow names in either
   spelling *)
InitHeaders ==
  /\ noRequest
  /\ noCooldown
  /\ noInflight
  /\ call \in [fn : {"getHeaderAttrs"},
                header : {[k \in {hXA, hXB, hXC} |->
                             CASE k = hXA -> a [] k = hXB -> b [] OTHER -> c] :
                           a \in SeqsUpTo({"1"}, MaxVals),
                           b \in SeqsUpTo({"2", "3"}, MaxVals),
                           c \in SeqsUpTo({"1"}, 1)},
                headers : SeqsUpTo({hXA, hxa, hXB, hXC}, MaxAllow)]
  /\ ret = <<>>

SpecHeaders == InitHeaders /\ [][CallGetHeaderAttrs]_vars

(* the helpers called on their own, with a context that carries the
   request log and with one that does not *)
InitHelpers ==
  /\ noRequest
  /\ noCooldown
  /\ noInflight
  /\ call \in
       [fn : {"SetAttrs"}, gen : {"context.go", "part_010", "part_009"},
        carries : BOOLEAN, level : {LevelInfo},
        attrs : SeqsUpTo({attrU, attrV, attrGX}, MaxAttrs)]
       \cup
       [fn : {"SetLevel"}, gen : {"context.go", "part_010"},
        carries : BOOLEAN, level : Levels, attrs : {<<>>}]
       \cup
       [fn : {"LogRequestBody", "LogResponseBody"}, gen : {"part_010"},
        carries : BOOLEAN, level : {LevelInfo}, attrs : {<<>>}]
  /\ ret = <<>>

SpecHelpers == InitHelpers /\ [][NextHelpers]_vars

(* the two places that leave a field out: appendAttrs of the Format-based
   middleware and Schema.ReplaceAttr, called by the slog handler for the
   built-in attributes and for the attributes of the record *)
InitSuppress ==
  /\ noRequest
  /\ noCooldown
  /\ noInflight
  /\ call \in
       [fn : {"ReplaceAttr"},
        schema : Schemas \cup {SchemaConcise(s, TRUE) : s \in Schemas}
                   \cup {SchemaZero},
        groups : {<<>>, <<"g">>},
        a : {slogAttr(<<k>>, "v") : k \in {"time", "level", "msg", "error", "u"}},
        source : {"none"}]
       \cup
       [fn : {"ReplaceAttr"},
        schema : Schemas \cup {SchemaConcise(s, TRUE) : s \in Schemas}
                   \cup {SchemaZero},
        groups : {<<>>, <<"g">>},
        a : {slogAttr(<<"source">>, "v")},
        source : {"none", "httplog", "app"}]
       \cup
       [fn : {"appendAttrs"},
        attrs : SeqsUpTo({attrU}, 1),
        newAttrs : SeqsUpTo({attrU, attrGX, attrE, emptyAttr}, MaxAttrs)]
  /\ ret = <<>>

SpecSuppress == InitSuppress /\ [][NextSuppress]_vars

(* the attributes handed to groupAttrs: keys without a delimiter, with one,
   with two, with nothing before it, with the other delimiter, and an
   attribute whose value is a group *)
attrG == slogAttr(<<"g">>, "5")
attrGY == slogAttr(<<"g", ".", "y">>, "6")
attrHXZ == slogAttr(<<"h", ".", "x", ".", "z">>, "7")
attrDotX == slogAttr(<<".", "x">>, "8")
attrAB == slogAttr(<<"a", ":", "b">>, "9")
attrGH == slogGroup(<<"g", ".", "hd">>, <<attrU>>)

InitGroup ==
  /\ noRequest
  /\ noCooldown
  /\ noInflight
  /\ call \in [fn : {"groupAttrs"},
                attrs : SeqsUpTo({attrU, attrG, attrGX, attrGY, attrHXZ,
                                  attrDotX, attrAB, attrGH}, MaxGrouped),
                delimiter : {".", ":"}]
  /\ ret = <<>>

SpecGroup == InitGroup /\ [][CallGroupAttrs]_vars

(* the receivers of Concise: the three schemas of the package, the zero
   schema, and each of the three with one name cleared *)
SchemaFields == DOMAIN SchemaZero

InitConcise ==
  /\ noRequest
  /\ noCooldown
  /\ noInflight
  /\ \E s \in Schemas \cup {SchemaZero} \cup
              {[t EXCEPT ![f] = SchemaZero[f]] : t \in Schemas, f \in SchemaFields},
        concise \in BOOLEAN :
       call = [fn |-> "Concise", schema |-> s, receiver |-> s,
               concise |-> concise]
  /\ ret = <<>>

SpecConcise == InitConcise /\ [][CallConcise]_vars

(* the requests handed to CURL: two header names with up to MaxVals values
   each, single quotes in the URL, the body, a header name and the values *)
hA == <<"A">>
hQ == <<"Q", "'">>

InitCurl ==
  /\ noRequest
  /\ noCooldown
  /\ noInflight
  /\ call \in
       [fn : {"CURL"},
        req : [Method : {"GET", "POST", "PUT", "DELETE"},
               TLS : BOOLEAN,
               Host : {<<"h">>},
               URL : {<<"/", "p">>, <<"/", "'", "?", "'">>},
               Header : [{hA, hQ} -> SeqsUpTo({<<"1">>, <<"'", "2">>}, MaxVals)]],
        reqBody : SeqsUpTo({"b", "'"}, MaxBody)]
  /\ ret = <<>>

SpecCurl == InitCurl /\ [][CallCURL]_vars

SpecCurlTwice == InitCurl /\ [][NextCurlTwice]_vars

(* Handler of src/httplog.go with /noisy, or /noisy and /, as quiet-down
   routes, a QuietDownPeriod of 0, 1 or 2 and with or without a skip list *)
InitQuiet ==
  /\ noRequest
  /\ noCooldown
  /\ noInflight
  /\ call \in [fn : {"Handler"},
                QuietDownRoutes : {{"/noisy"}, {"/noisy", "/"}},
                QuietDownPeriod : {0, 1, 2},
                skipPaths : {{}, {"/other"}}]
  /\ ret = <<>>

SpecQuiet == InitQuiet /\ [][NextQuiet]_vars

InitRace ==
  /\ noRequest
  /\ noCooldown
  /\ noInflight
  /\ call \in [fn : {"Handler"},
                QuietDownRoutes : {{"/noisy"}},
                QuietDownPeriod : {2},
                skipPaths : {{"/other"}}]
  /\ ret = <<>>

SpecRace == InitRace /\ [][NextRace]_vars

(* LogEntrySetFields with every map over up to three keys, on a context
   with and without an entry, with both handlers of the tests *)
InitLogEntry ==
  /\ noRequest
  /\ noCooldown
  /\ noInflight
  /\ \E keys \in SUBSET {"foo", "bar", "baz"} :
       call \in [fn : {"LogEntrySetFields"},
                 fields : [keys -> {"1000", "account"}],
                 carries : BOOLEAN,
                 handlerKind : {"storing", "copying"}]
  /\ ret = <<>>

SpecLogEntry == InitLogEntry /\ [][NextLogEntry]_vars

(* headerLogField of both packages: a header with the names Authorization,
   Set-Cookie, X-A and X-B, and X-A configured as hidden in either case *)
InitHide ==
  /\ noRequest
  /\ noCooldown
  /\ noInflight
  /\ call \in
       [fn : {"headerLogField"},
        gen : {"httplog", "httpzaplog"},
        header : {[n \in {hAuthorization, hSetCookie, hXA, hXB} |->
                     CASE n = hAuthorization -> a [] n = hSetCookie -> c
                       [] n = hXA -> x [] OTHER -> y] :
                    a \in SeqsUpTo({"s1"}, 1), c \in SeqsUpTo({"s2"}, MaxVals),
                    x \in SeqsUpTo({"s3", "s4"}, MaxVals),
                    y \in SeqsUpTo({"v"}, 1)},
        hide : SeqsUpTo({hXA, hxa}, MaxHide)]
  /\ ret = <<>>

SpecHide == InitHide /\ [][CallHeaderLogField]_vars

(* attributes set during a request: every generation, the formats with
   and without a group delimiter, a handler that sets up to MaxAttrs
   attributes in one or several calls *)
InitAttrs ==
  InitWith(Variants, {LevelInfo}, {LevelDebug}, {TRUE},
           {[req |-> FALSE, resp |-> FALSE, extra |-> FALSE]},
           {"GET"}, {""}, {ctEmpty},
           {<<>>}, {-1}, {ECS, GCP, Concise}, {<<>>}, {"EOF"},
           [statuses |-> {200}, contentTypes |-> {ctJSON},
            maxWrite |-> 1, maxRead |-> 1, panics |-> {"boom"},
            levels |-> {LevelDebug},
            attrs |-> SeqsUpTo({attrU, attrV, attrGX, attrE}, MaxAttrs) \ {<<>>}])

SpecAttrs == InitAttrs /\ [][NextHelped]_vars

(* the threshold: Logger.Handle serving MaxRequests requests one after the
   other, with Options.Level below and above the level of the records, a
   handler that calls SetLevel up to MaxCalls times and answers 200 or 500 *)
InitLevel ==
  InitWith({"lh"}, {LevelDebug, LevelError}, {LevelDebug}, {TRUE},
           {[req |-> FALSE, resp |-> FALSE, extra |-> FALSE]},
           {"GET"}, {""}, {ctEmpty},
           {<<>>}, {0}, {ECS}, {<<>>}, {"EOF"},
           [statuses |-> {500}, contentTypes |-> {ctJSON},
            maxWrite |-> 1, maxRead |-> 1, panics |-> {"boom"},
            levels |-> {LevelDebug, LevelError},
            attrs |-> {<<attrU>>}])

SpecLevel == InitLevel /\ [][NextServing]_vars

(* capture switched on by the handler: Logger.Handle with capture on and
   off in Options, bodies up to MaxBody bytes, a handler that calls
   LogRequestBody and LogResponseBody up to MaxCalls times each, before,
   between and after its reads and writes *)
InitCapture ==
  InitWith({"lh"}, {LevelInfo}, {LevelDebug}, {TRUE},
           {[req |-> q, resp |-> c, extra |-> FALSE] : q, c \in BOOLEAN},
           {"GET"}, {""}, {ctEmpty},
           {<<>>}, {0}, {ECS}, SeqsUpTo({"0"}, MaxBody) \cup {<<"0", "1">>}, {"EOF"},
           [statuses |-> {200}, contentTypes |-> {ctJSON},
            maxWrite |-> 1, maxRead |-> MaxBody + 1, panics |-> {"boom"},
            levels |-> {LevelError},
            attrs |-> {}])

SpecCapture == InitCapture /\ [][NextCapturing]_vars

(* the fully-read flag: Logger.Handle and the second RequestLogger with
   request capture on, Concise off and on, a handler that reads none, some
   or all of the body and answers 200 or 400 *)
InitFlag ==
  InitRequest({"lh", "mwB"}, {LevelInfo}, {LevelDebug}, {TRUE},
              {[req |-> TRUE, resp |-> FALSE, extra |-> FALSE]},
              {"GET"}, {""}, {ctEmpty},
              {<<>>}, {0}, {ECS}, SeqsUpTo(Bytes, MaxBody), {"EOF", "ERR"},
              [statuses |-> {200, 400}, contentTypes |-> {ctJSON},
               maxWrite |-> 1, maxRead |-> MaxBody + 1, panics |-> {"boom"},
               levels |-> {LevelDebug}, attrs |-> {}],
              BOOLEAN)

SpecFlag == InitFlag /\ [][Next]_vars

----------------------------------------------------------------------------
(* The request facts of the record.  The middleware keeps its own
   *http.Request r and hands the handler r.WithContext(ctx), a shallow
   copy: the copy has its own Method, Host, URL and Header fields, but its
   URL field points at the same url.URL and its Header field is the same
   map.  Three generations: "lh0" is Logger.Handle of src/logger.go:80-180
   with the handler of src/unnamed/part_002:260-300, "lh" is Logger.Handle
   of src/logger.go:311-389 with src/handler.go, "mwB" is RequestLogger of
   src/middleware.go:197-335. *)

zeroRequest == [Method |-> "", Host |-> <<>>, URL |-> 0, Header |-> 0]
emptyHeader == [k \in {hXA, hXB} |-> <<>>]

factFrame == <<requestVars0, quietVars, call, ret>>

(* the request facts as the record's attributes render them from a
   request q: src/handler.go:72-79, src/unnamed/part_002:285-292,
   src/middleware.go:281-306 *)
requestFacts(msg, q, urls, hdrs, headers) ==
  [msg |-> msg,
   method |-> q.Method,
   url |-> requestURL([TLS |-> FALSE, Host |-> q.Host, URL |-> urls[q.URL].Path]),
   path |-> urls[q.URL].Path,
   headers |-> getHeaderAttrs(hdrs[q.Header], headers)]

(* the request the record is rendered from: the RequestLog filled at entry,
   log.Req = r, or r itself *)
loggedRequest(f, gen) == IF gen = "lh0" THEN f.logReq ELSE f.r

(* entry of the middleware up to next.ServeHTTP(ww, r.WithContext(ctx));
   Logger.Handle logs "Request started" on the way *)
FactsEntry ==
  /\ inflight.pc = "entry"
  /\ LET f1 == [inflight EXCEPT
                  !.logReq = IF call.gen = "lh0" THEN inflight.r ELSE @,
                  !.r2 = inflight.r,
                  !.pc = "handler"]
     IN inflight' =
          IF call.gen \in {"lh0", "lh"} /\ call.debug
          THEN [f1 EXCEPT !.records =
                  Append(@, requestFacts("Request started",
                                         loggedRequest(f1, call.gen),
                                         f1.urls, f1.hdrs,
                                         call.LogRequestHeaders))]
          ELSE f1
  /\ UNCHANGED factFrame

(* what the handler does to the request it was given *)
mutating == inflight.pc = "handler" /\ inflight.steps < MaxMutations
mutated(f) == [f EXCEPT !.steps = @ + 1]

(* r.Method = m; r.Host = h *)
SetMethod(m) ==
  /\ mutating
  /\ inflight' = mutated([inflight EXCEPT !.r2.Method = m])
  /\ UNCHANGED factFrame

SetHost(h) ==
  /\ mutating
  /\ inflight' = mutated([inflight EXCEPT !.r2.Host = h])
  /\ UNCHANGED factFrame

(* r.URL.Path = p *)
SetURLPath(p) ==
  /\ mutating
  /\ inflight' = mutated([inflight EXCEPT !.urls[inflight.r2.URL].Path = p])
  /\ UNCHANGED factFrame

(* u := *r.URL; u.Path = p; r.URL = &u *)
AssignURL(p) ==
  /\ mutating
  /\ inflight.r2.URL = 1
  /\ inflight' = mutated([inflight EXCEPT !.urls[2] = [Path |-> p],
                                          !.r2.URL = 2])
  /\ UNCHANGED factFrame

(* r.Header.Set(k, v); r.Header.Del(k) *)
HeaderSet(k, v) ==
  /\ mutating
  /\ inflight' = mutated([inflight EXCEPT !.hdrs[inflight.r2.Header][k] = <<v>>])
  /\ UNCHANGED factFrame

HeaderDel(k) ==
  /\ mutating
  /\ inflight' = mutated([inflight EXCEPT !.hdrs[inflight.r2.Header][k] = <<>>])
  /\ UNCHANGED factFrame

(* r.Header = r.Header.Clone() *)
AssignHeader ==
  /\ mutating
  /\ inflight.r2.Header = 1
  /\ inflight' = mutated([inflight EXCEPT !.hdrs[2] = inflight.hdrs[1],
                                          !.r2.Header = 2])
  /\ UNCHANGED factFrame

(* the handler returns and the deferred function emits the record *)
FactsFinished ==
  /\ inflight.pc = "handler"
  /\ inflight' = [inflight EXCEPT
        !.pc = "done",
        !.records = Append(@, requestFacts("Request finished",
                                           loggedRequest(inflight, call.gen),
                                           inflight.urls, inflight.hdrs,
                                           call.LogRequestHeaders))]
  /\ UNCHANGED factFrame

Mutate ==
  \/ SetMethod("PUT")
  \/ SetHost(<<"o">>)
  \/ \E p \in {<<"/", "b">>} : SetURLPath(p) \/ AssignURL(p)
  \/ \E k \in {hXA, hXB} : HeaderSet(k, "9") \/ HeaderDel(k)
  \/ AssignHeader

NextFacts ==
  \/ FactsEntry
  \/ Mutate
  \/ FactsFinished

(* a request with either method, either path and any of the two headers,
   each generation, the allow-list X-A, X-B *)
InitFacts ==
  /\ noRequest
  /\ noCooldown
  /\ call \in [fn : {"Handle"}, gen : {"lh0", "lh", "mwB"}, debug : BOOLEAN,
                Method : {"GET", "POST"}, Host : {<<"h">>},
                Path : {<<"/">>, <<"/", "a">>},
                Header : {[k \in {hXA, hXB} |-> IF k = hXA THEN a ELSE b] :
                           a \in {<<>>, <<"1">>}, b \in {<<>>, <<"2">>}},
                LogRequestHeaders : {<<hXA, hXB>>}]
  /\ ret = <<>>
  /\ inflight = [pc |-> "entry",
                 r |-> [Method |-> call.Method, Host |-> call.Host,
                        URL |-> 1, Header |-> 1],
                 r2 |-> zeroRequest,
                 logReq |-> zeroRequest,
                 urls |-> [i \in 1..2 |-> IF i = 1 THEN [Path |-> call.Path]
                                          ELSE [Path |-> <<>>]],
                 hdrs |-> [i \in 1..2 |-> IF i = 1 THEN call.Header
                                          ELSE emptyHeader],
                 records |-> <<>>,
                 steps |-> 0]

SpecFacts == InitFacts /\ [][NextFacts]_vars

----------------------------------------------------------------------------
(* Properties *)

finished == SelectSeq(sink, LAMBDA x : x.msg = "Request finished")
ended == pc \in {"returned", "panicked"}

(* the level filter as the options document it: the floor Options.Level and
   the logger's own level; in Logger.Handle the request's threshold *)
passesFilter ==
  IF variant = "lh" THEN lvl[1] >= log.Level
  ELSE lvl[1] >= o.Level /\ lvl[1] >= loggerLevel

(* C1 as stated: when the middleware is done with a request, exactly one
   request record has been emitted, whether the handler returned, panicked
   with an ordinary value or panicked with http.ErrAbortHandler. *)
C1_ExactlyOneRecord == ended => Len(finished) = 1

(* C1, amended: at most one request record is emitted per request, never
   two, and none before the handler has returned or panicked; when the
   middleware is done exactly one has been emitted if the record's level
   passes the level filter and none if it does not, on the normal path and
   on both panic paths. *)
C1_AtMostOneRecord ==
  /\ Len(finished) <= 1
  /\ pc \in {"entry", "handler", "deferred", "classify"} => Len(finished) = 0
  /\ pc \in {"unwind", "returned", "panicked"} =>
       (Len(finished) = 1 <=> passesFilter)

C1_Witness ==
  /\ pc = "panicked"
  /\ rec = ErrAbortHandler
  /\ Len(finished) = 1

(* C2: a panic with http.ErrAbortHandler, or any panic while RecoverPanics
   is false, leaves the middleware with the same value, and only after the
   classification and emission step has run (also when the record was
   filtered out); with RecoverPanics true and another value no panic
   leaves the middleware. *)
C2_RePanicAfterEmission ==
  /\ outPanic # None => pc = "panicked"
  /\ pc = "panicked" =>
       /\ rec # None
       /\ outPanic = rec
       /\ rec = ErrAbortHandler \/ ~o.RecoverPanics
       /\ lvl # <<>>
       /\ lvl # <<>> /\ passesFilter => Len(finished) = 1
  /\ pc = "returned" =>
       /\ outPanic = None
       /\ rec = None \/ (o.RecoverPanics /\ rec # ErrAbortHandler)

C2_Witness ==
  /\ pc = "panicked"
  /\ o.RecoverPanics
  /\ outPanic = ErrAbortHandler
  /\ lvl # <<>>
  /\ Len(finished) = 0

(* the panic case in which the middleware has to supply the status *)
needs500 ==
  o.RecoverPanics /\ handlerStatus = 0 /\ r.Connection # "Upgrade"

(* C3: after a panic with RecoverPanics true, no status written and a
   Connection header other than "Upgrade", the middleware has written 500
   before the level is chosen and the record carries 500; in every other
   panic case the middleware writes no status and the handler's status
   stays. *)
C3_Forced500 ==
  (rec # None /\ pc \in {"classify", "unwind", "returned", "panicked"}) =>
     IF needs500
     THEN /\ mwWrites = 1
          /\ ww.code = StatusInternalServerError
          /\ w.code = StatusInternalServerError
          /\ \A i \in 1..Len(finished) :
               finished[i].status = StatusInternalServerError
     ELSE /\ mwWrites = 0
          /\ ww.code = handlerStatus
          /\ w = direct

C3_Witness ==
  /\ pc = "classify"
  /\ lvl = <<>>
  /\ rec = "boom"
  /\ handlerStatus = 0
  /\ ww.code = StatusInternalServerError

(* the precedence table of the level: status first, then the method *)
classify(method, status) ==
  CASE status >= 500 -> LevelError
    [] status < 500 /\ status = 429 -> LevelInfo
    [] status < 500 /\ status # 429 /\ status >= 400 -> LevelWarn
    [] status < 400 /\ method = "OPTIONS" -> LevelDebug
    [] OTHER -> LevelInfo

(* C5: in every generation the level chosen for the request record is
   classify(method, final status): 5xx Error, 429 Info, other 4xx Warn,
   then OPTIONS Debug, otherwise Info. *)
C5_LevelTable ==
  lvl # <<>> => lvl[1] = classify(r.Method, ww.code)

(* C6: with the logger enabled at every level, in the generations that
   filter on Options.Level after the status-first switch: under Level Warn
   the record is emitted iff the final status is >= 400 and not 429, under
   Level Error iff it is >= 500. *)
C6_LevelFloor ==
  (/\ ended
   /\ loggerLevel = LevelDebug
   /\ variant \in {"mwB", "fmt"}) =>
     /\ o.Level = LevelWarn =>
          (Len(finished) = 1 <=> (ww.code >= 400 /\ ww.code # 429))
     /\ o.Level = LevelError =>
          (Len(finished) = 1 <=> ww.code >= 500)

C6_Witness ==
  /\ ended
  /\ loggerLevel = LevelDebug
  /\ variant = "mwB"
  /\ o.Level = LevelWarn
  /\ ww.code = 429
  /\ Len(finished) = 0

(* C7: every handler panic yields a request record at Error level, with
   RecoverPanics false as well as true and whatever status had been
   written before the panic. *)
C7_PanicLoggedAsError ==
  (ended /\ rec # None) =>
     \E i \in 1..Len(finished) : finished[i].level = LevelError

(* C4: while the handler has not panicked, the status, the header and the
   body bytes the client receives are those the handler wrote, as if it
   had been called without the middleware, and the middleware itself has
   written nothing; the wrapper's status and byte count are those of the
   response. *)
C4_ResponseUntouched ==
  rec = None =>
    /\ w = direct
    /\ mwWrites = 0
    /\ ww.wroteHeader = w.wroteHeader
    /\ ww.code = w.code
    /\ ww.bytes = Len(w.body)

C4_Witness ==
  /\ pc = "returned"
  /\ rec = None
  /\ o.LogResponseBody
  /\ w.hdr = ctPNG
  /\ Len(w.body) >= 2
  /\ respBody = w.body
  /\ Len(finished) = 0

IsPrefix(a, b) == Len(a) <= Len(b) /\ SubSeq(b, 1, Len(a)) = a

(* C8: with request-body capture active and a body that can be read to its
   end, the handler reads the original bytes in their order with the end
   of the stream after the last of them, and what it has read is a prefix
   of the capture buffer. *)
C8_TeeRoundTrip ==
  (captureRequest(variant, o) /\ pc # "entry" /\ body.end = "EOF") =>
     /\ IsPrefix(hRead, body.data)
     /\ hEnd # "ERR"
     /\ hEnd = "EOF" => hRead = body.data
     /\ IsPrefix(hRead, reqBody)
     /\ IsPrefix(reqBody, body.data)

C8_Witness ==
  /\ variant = "mwB"
  /\ captureRequest(variant, o)
  /\ pc = "handler"
  /\ hEnd = "EOF"
  /\ hRead = <<"0", "1">>
  /\ reqBody = <<"0", "1">>

(* C9 as stated: with request-body capture active the original body has
   been read to its end when the middleware is done, on every path. *)
C9_DrainsOnEveryPath ==
  (ended /\ captureRequest(variant, o)) =>
     (orig.done /\ orig.data = <<>>)

(* C9, amended: with request-body capture active the body has been read to
   its end once the deferred function has run, whenever the record passes
   the level filter, and on every path in Logger.Handle (which drains
   before it filters) and in the first RequestLogger (which reads the whole
   body at entry); in the TeeReader generations of RequestLogger a record
   below the filter leaves the body where the handler left it. *)
C9_DrainsWhenLogged ==
  (captureRequest(variant, o) /\ pc \in {"unwind", "returned", "panicked"}) =>
     /\ (passesFilter \/ variant \in {"lh", "mwA"}) =>
          (orig.done /\ orig.data = <<>>)
     /\ (~passesFilter /\ variant \in {"mwB", "fmt"}) =>
          /\ Len(hRead) + Len(orig.data) = Len(body.data)
          /\ orig.done <=> hEnd # None

C9_Witness ==
  /\ variant = "mwB"
  /\ captureRequest(variant, o)
  /\ pc = "returned"
  /\ passesFilter
  /\ hRead = <<>>
  /\ hEnd = None
  /\ Len(body.data) >= 2
  /\ orig.done
  /\ reqBody = body.data

(* a Content-Type matches the allow-list: it equals an entry, or begins
   with a non-empty entry *)
allowListed(contentType, list) ==
  \E i \in 1..Len(list) :
     \/ list[i] = contentType
     \/ list[i] # <<>> /\ HasPrefix(contentType, list[i])

hasBodyByte(str) == \E i \in 1..Len(str) : str[i] \in Bytes

placeholder(v, contentType) ==
  IF v = "fmt"
  THEN <<"[body redacted for Content-Type: ">> \o contentType \o <<"]">>
  ELSE <<"[redacted]">>

(* C10: in the generations with LogBodyContentTypes, a non-empty captured
   request or response body whose Content-Type matches no entry of the
   list is emitted as the redaction placeholder, without any byte of the
   body. *)
C10_BodyOnlyForAllowedTypes ==
  (variant \in {"mwB", "fmt"} /\ Len(finished) = 1) =>
     /\ (o.LogRequestBody /\ reqBody # <<>>
         /\ ~allowListed(r.ContentType, o.LogBodyContentTypes)) =>
          /\ finished[1].reqBody = placeholder(variant, r.ContentType)
          /\ ~hasBodyByte(finished[1].reqBody)
     /\ (o.LogResponseBody /\ respBody # <<>>
         /\ ~allowListed(header, o.LogBodyContentTypes)) =>
          /\ finished[1].respBody = placeholder(variant, header)
          /\ ~hasBodyByte(finished[1].respBody)

(* the rendering of body under a limit of m bytes, 0 or less meaning none *)
trimmedTo(b, m) ==
  IF m <= 0 \/ Len(b) <= m THEN b ELSE SubSeq(b, 1, m) \o trimmedMarker

(* C11 as stated: with LogBodyMaxLen = m as configured, a captured body of
   an allow-listed Content-Type is emitted in full when m <= 0 or the body
   has at most m bytes, and as its first m bytes followed by the marker
   otherwise. *)
C11_TruncationAsConfigured ==
  (variant \in {"mwB", "fmt"} /\ Len(finished) = 1) =>
     /\ (o.LogRequestBody /\ allowListed(r.ContentType, o.LogBodyContentTypes)) =>
          finished[1].reqBody = trimmedTo(reqBody, given.LogBodyMaxLen)
     /\ (o.LogResponseBody /\ allowListed(header, o.LogBodyContentTypes)) =>
          finished[1].respBody = trimmedTo(respBody, given.LogBodyMaxLen)

(* the limit in force: an unset LogBodyMaxLen is the default *)
effectiveMaxLen(m) == IF m = 0 THEN defaultLogBodyMaxLen ELSE m

(* C11: with LogBodyMaxLen = m as configured and m' the limit in force
   (the default 1024 when m = 0, m otherwise), a captured body of an
   allow-listed Content-Type is emitted in full when m' < 0 or the body has
   at most m' bytes, and as its first m' bytes followed by the marker
   otherwise. *)
C11_Truncation ==
  (variant \in {"mwB", "fmt"} /\ Len(finished) = 1) =>
     /\ (o.LogRequestBody /\ allowListed(r.ContentType, o.LogBodyContentTypes)) =>
          finished[1].reqBody =
             trimmedTo(reqBody, effectiveMaxLen(given.LogBodyMaxLen))
     /\ (o.LogResponseBody /\ allowListed(header, o.LogBodyContentTypes)) =>
          finished[1].respBody =
             trimmedTo(respBody, effectiveMaxLen(given.LogBodyMaxLen))

(* an unset limit and a body longer than the default: the record carries
   the first 1024 bytes and the marker *)
C11_Witness ==
  /\ variant \in {"mwB", "fmt"}
  /\ Len(finished) = 1
  /\ given.LogBodyMaxLen = 0
  /\ reqBody = longBody
  /\ finished[1].reqBody = SubSeq(longBody, 1, defaultLogBodyMaxLen) \o trimmedMarker
  /\ Len(respBody) = 2
  /\ finished[1].respBody = respBody

(* the header holds at least one value under the name *)
headerPresent(hdr, h) == Len(HeaderValues(hdr, h)) >= 1

(* C12: getHeaderAttrs(header, allowList) returns one attribute per
   allow-list entry that the header holds, in allow-list order and keyed by
   the entry; a header with exactly one value is a scalar string, one with
   several values the list of all of them; a header outside the allow-list
   or absent from the header is not rendered. *)
C12_HeaderAttrs ==
  (call.fn = "getHeaderAttrs" /\ ret # <<>>) =>
     LET out == ret[1]
         wanted == SelectSeq(call.headers,
                             LAMBDA h : headerPresent(call.header, h))
     IN /\ Len(out) = Len(wanted)
        /\ \A i \in 1..Len(out) :
              LET vals == HeaderValues(call.header, wanted[i])
              IN /\ out[i].key = wanted[i]
                 /\ Len(vals) = 1 => out[i].kind = "String" /\ out[i].value = vals[1]
                 /\ Len(vals) > 1 => out[i].kind = "Any" /\ out[i].value = vals

(* headers {X-A:[1], X-B:[2,3]} with allow-list [X-A, X-B, X-C] *)
C12_Witness ==
  /\ call.fn = "getHeaderAttrs"
  /\ call.header[hXA] = <<"1">>
  /\ call.header[hXB] = <<"2", "3">>
  /\ call.header[hXC] = <<>>
  /\ call.headers = <<hXA, hXB, hXC>>
  /\ ret = << <<[key |-> hXA, kind |-> "String", value |-> "1"],
               [key |-> hXB, kind |-> "Any", value |-> <<"2", "3">>]>> >>

(* the request log and the response wrapper before any helper ran *)
untouched ==
  /\ log = [Level |-> LevelInfo, LogRequestBody |-> FALSE,
            LogResponseBody |-> FALSE, Panic |-> None,
            ReqBodyFullyRead |-> FALSE, Attrs |-> <<>>, ReqBodyReader |-> "orig", ReqBodyTees |-> 0]
  /\ ww = NewWrapResponseWriter

(* C13: SetAttrs, SetLevel, LogRequestBody and LogResponseBody, called with
   a context that carries no request log, panic - they never return
   normally - and change no state. *)
C13_PanicsOutsideContext ==
  (call.fn \in {"SetAttrs", "SetLevel", "LogRequestBody", "LogResponseBody"}
   /\ ~call.carries /\ ret # <<>>) =>
     ret[1] = "panicked" /\ untouched

(* the attributes of a record with every group opened: a member of a group
   under the group's name, the delimiter and its own name *)
RECURSIVE flattenAttrs(_, _)
flattenAttrs(attrs, delimiter) ==
  IF attrs = <<>> THEN <<>>
  ELSE LET a == Head(attrs)
       IN (IF a.members # <<>>
           THEN [i \in 1..Len(a.members) |->
                   [a.members[i] EXCEPT !.key = a.key \o <<delimiter>> \o @]]
           ELSE <<a>>)
          \o flattenAttrs(Tail(attrs), delimiter)

(* the attributes of a record that came through SetAttrs *)
setByHandler(attrs, delimiter) ==
  SelectSeq(flattenAttrs(attrs, delimiter),
            LAMBDA a : a.value \in {"1", "2", "3", "4"})

(* C14: the attributes added through SetAttrs during a request appear in
   the request's record in the order in which they were added, none lost
   and none duplicated, for every format, one with a GroupDelimiter
   included. *)
C14_AttrsInOrder ==
  (variant \in {"mwB", "fmt"} /\ Len(finished) = 1) =>
     setByHandler(finished[1].attrs, o.Format.GroupDelimiter) = log.Attrs

(* the records of the request being served *)
thisRequest(msg) ==
  SelectSeq(sink, LAMBDA x : x.msg = msg /\ x.req = served)

(* the threshold the claim describes: the argument of the request's last
   SetLevel, Options.Level as configured if there was none *)
threshold ==
  LET setLevels == SelectSeq(trace, LAMBDA c : c.fn = "SetLevel")
  IN IF setLevels = <<>> THEN given.Level ELSE setLevels[Len(setLevels)].level

(* C15: after any sequence of SetLevel calls in a request the request's
   threshold is the argument of the last call, Options.Level if there was
   none; the request's record is emitted if and only if its level is at
   least that threshold (the "Request started" record, emitted before the
   handler runs, if and only if Debug is at least Options.Level);
   Options.Level stays as configured and the next request starts from it. *)
C15_LastLevelWins ==
  /\ o.Level = given.Level
  /\ (variant = "lh" /\ pc # "entry") =>
       /\ log.Level = threshold
       /\ Len(thisRequest("Request started")) =
            (IF LevelDebug >= given.Level THEN 1 ELSE 0)
  /\ (variant = "lh" /\ pc \in {"unwind", "returned", "panicked"}) =>
       Len(thisRequest("Request finished")) =
          (IF lvl[1] >= threshold THEN 1 ELSE 0)

(* the first request lowered its threshold and was logged at Info under
   Options.Level = Error; the second, without SetLevel, ended unlogged *)
C15_Witness ==
  /\ variant = "lh"
  /\ given.Level = LevelError
  /\ served = 1
  /\ pc = "returned"
  /\ trace = <<>>
  /\ lvl = <<LevelInfo>>
  /\ thisRequest("Request finished") = <<>>
  /\ \E i \in 1..Len(sink) :
        sink[i].req = 0 /\ sink[i].msg = "Request finished"
        /\ sink[i].level = LevelInfo

(* the number of calls of a helper the handler has made *)
called(fn) == Len(SelectSeq(trace, LAMBDA c : c.fn = fn))

(* a is a run of consecutive elements of b *)
IsInfix(a, b) ==
  \E k \in 0..(Len(b) - Len(a)) : SubSeq(b, k + 1, k + Len(a)) = a

(* C16: however often the handler calls LogRequestBody(ctx) and
   LogResponseBody(ctx), with capture on or off in Options, at most one
   tee is installed per direction, the capture flag stays true once
   capture is on, and no byte is captured twice: the captured request
   bytes are a run of the body's bytes, the captured response bytes a run
   of the bytes the handler wrote. *)
C16_CaptureIdempotent ==
  (variant = "lh" /\ pc # "entry") =>
     /\ log.ReqBodyTees <= 1
     /\ (o.LogRequestBody \/ called("LogRequestBody") > 0) =>
          log.LogRequestBody /\ log.ReqBodyTees = 1
     /\ (o.LogResponseBody \/ called("LogResponseBody") > 0) =>
          log.LogResponseBody /\ ww.tee
     /\ IsInfix(reqBody, body.data)
     /\ IsInfix(respBody, direct.body)

(* capture off in Options, LogRequestBody and LogResponseBody each called
   twice, a body of two bytes that only the deferred drain reads: each
   byte is captured once *)
C16_Witness ==
  /\ variant = "lh"
  /\ ~o.LogRequestBody /\ ~o.LogResponseBody
  /\ called("LogRequestBody") = 2
  /\ called("LogResponseBody") = 2
  /\ pc = "returned"
  /\ body.data = <<"0", "1">>
  /\ hRead = <<>>
  /\ reqBody = <<"0", "1">>
  /\ Len(respBody) = 1
  /\ Len(finished) = 1
  /\ finished[1].reqBody = <<"0", "1">>

(* C17: a semantic field whose schema or format name is the empty string
   appears in the record under no key: Schema.ReplaceAttr returns the empty
   Attr for the timestamp, level, message, error and source fields, and
   appendAttrs appends no attribute with an empty key.  (Refuted for
   Schema.ReplaceAttr.) *)
schemaName(s, key) ==
  CASE key = <<"time">> -> s.Timestamp
    [] key = <<"level">> -> s.Level
    [] key = <<"msg">> -> s.Message
    [] key = <<"error">> -> s.ErrorMessage
    [] key = <<"source">> -> s.SourceFile
    [] OTHER -> key

isSemanticField(c) ==
  /\ c.groups = <<>>
  /\ c.a.key \in {<<"time">>, <<"level">>, <<"msg">>, <<"error">>, <<"source">>}
  /\ c.a.key = <<"source">> => c.source # "none"

C17_EmptyNameSuppressed ==
  /\ (call.fn = "ReplaceAttr" /\ ret # <<>> /\ isSemanticField(call)
        /\ schemaName(call.schema, call.a.key) = <<>>)
       => ret[1] = emptyAttr
  /\ (call.fn = "appendAttrs" /\ ret # <<>>)
       => \A i \in 1..Len(ret[1]) : ret[1][i].key # <<>>
(* C18: with a non-empty delimiter, groupAttrs returns the attributes
   without the delimiter first, in their input order, then one nested
   object per text found before a first delimiter; the object holds, in
   input order, the attributes with that text before their first delimiter,
   each under the text after it and with its value unchanged; so every input
   attribute appears exactly once. *)
positions(attrs, has(_)) ==
  SelectSeq([i \in 1..Len(attrs) |-> i], LAMBDA i : has(attrs[i]))

C18_Grouped ==
  (call.fn = "groupAttrs" /\ ret # <<>>) =>
    LET attrs == call.attrs
        d == call.delimiter
        out == ret[1]
        plain == positions(attrs, LAMBDA a : cutIndex(a.key, d) = 0)
        under(p) == positions(attrs, LAMBDA a : cutIndex(a.key, d) > 0
                                               /\ cutPrefix(a.key, d) = p)
        objects == (Len(plain) + 1)..Len(out)
    IN /\ Len(out) >= Len(plain)
       /\ \A i \in 1..Len(plain) : out[i] = attrs[plain[i]]
       /\ \A k \in objects :
            /\ out[k].value = "group"
            /\ Len(under(out[k].key)) > 0
            /\ Len(out[k].members) = Len(under(out[k].key))
            /\ \A m \in 1..Len(out[k].members) :
                 LET a == attrs[under(out[k].key)[m]]
                 IN /\ out[k].members[m].key = cutRest(a.key, d)
                    /\ out[k].members[m].value = a.value
                    /\ out[k].members[m].members = a.members
       /\ \A k, l \in objects : out[k].key = out[l].key => k = l
       /\ \A i \in 1..Len(attrs) :
            cutIndex(attrs[i].key, d) > 0 =>
              \E k \in objects : out[k].key = cutPrefix(attrs[i].key, d)

(* two leaves of one group around a top-level attribute *)
C18_Witness ==
  /\ call.fn = "groupAttrs" /\ ret # <<>>
  /\ call.attrs = <<attrGY, attrU, attrGX>> /\ call.delimiter = "."
  /\ ret[1] = <<attrU, slogGroup(<<"g">>, <<slogAttr(<<"y">>, "6"),
                                             slogAttr(<<"x">>, "3")>>)>>
(* C19 as stated: Concise(false) returns the receiver; Concise(true)
   returns a schema whose error-message, stack-trace, request- and
   response-headers, request- and response-body names and group delimiter
   are the receiver's and whose other names are all empty; a second
   Concise(true) changes nothing; the receiver is not modified.  (Refuted:
   the name of the unread request bytes is kept too.) *)
conciseOf(s, kept) ==
  [f \in SchemaFields |-> IF f \in kept THEN s[f] ELSE SchemaZero[f]]

conciseAs(kept) ==
  (call.fn = "Concise" /\ ret # <<>>) =>
    /\ call.receiver = call.schema
    /\ ~call.concise => \A i \in 1..Len(ret) : ret[i] = call.schema
    /\ call.concise => \A i \in 1..Len(ret) : ret[i] = conciseOf(call.schema, kept)

namesListed == {"ErrorMessage", "ErrorStackTrace", "RequestHeaders",
                "RequestBody", "ResponseHeaders", "ResponseBody",
                "GroupDelimiter"}

C19_ConciseAsStated == conciseAs(namesListed)

(* C19, amended: the names kept by Concise(true) are those listed and the
   name of the unread request bytes; the rest as stated. *)
C19_Concise == conciseAs(namesListed \cup {"RequestBytesUnread"})

(* Concise(true) applied twice to the ECS schema *)
C19_Witness ==
  /\ call.fn = "Concise" /\ call.concise /\ call.schema = SchemaECS
  /\ Len(ret) = 2
  /\ ret[1].RequestBytesUnread = SchemaECS.RequestBytesUnread
  /\ ret[1].Timestamp = <<>>
(* C20: CURL renders "curl", then " -X <method>" exactly when the method is
   neither GET nor POST, then the quoted URL, then " --data-raw" and the
   quoted body exactly when the method is POST, then one " -H" flag with
   the quoted "<name>: <value>" per header value and nothing else; a quoted
   text stands between single quotes with each of its single quotes
   rendered as '\''. *)
rendered(v) ==
  <<"'">>
  \o Concat([i \in 1..Len(v) |->
               IF v[i] = "'" THEN <<"'", "\\", "'", "'">> ELSE <<v[i]>>])
  \o <<"'">>

flagsOf(hd, name) ==
  [j \in 1..Len(hd[name]) |->
     <<" -H ">> \o rendered(name \o <<": ">> \o hd[name][j])]

count(sq, x) == Len(SelectSeq(sq, LAMBDA y : y = x))

C20_CurlRendering ==
  (call.fn = "CURL" /\ ret # <<>>) =>
    LET req == call.req
        out == ret[1]
        url == <<IF req.TLS THEN "https" ELSE "http", "://">>
               \o req.Host \o req.URL
        front == <<"curl">>
                 \o (IF req.Method \notin {"GET", "POST"}
                     THEN <<" -X ", req.Method>> ELSE <<>>)
                 \o <<" ">> \o rendered(url)
                 \o (IF req.Method = "POST"
                     THEN <<" --data-raw ">> \o rendered(call.reqBody)
                     ELSE <<>>)
        flags == SubSeq(out, Len(front) + 1, Len(out))
        names == DOMAIN req.Header
        someOrder == CHOOSE ord \in mapOrders(names) : TRUE
    IN /\ Len(out) >= Len(front)
       /\ SubSeq(out, 1, Len(front)) = front
       /\ \A n \in names : \A j \in 1..Len(req.Header[n]) :
            IsInfix(flagsOf(req.Header, n)[j], flags)
       /\ count(flags, " -H ")
            = Len(Concat([i \in 1..Len(someOrder) |-> req.Header[someOrder[i]]]))
       /\ Len(flags)
            = Len(Concat([i \in 1..Len(someOrder) |->
                            Concat(flagsOf(req.Header, someOrder[i]))]))
       /\ count(out, " -X ") = (IF req.Method \in {"GET", "POST"} THEN 0 ELSE 1)
       /\ count(out, " --data-raw ") = (IF req.Method = "POST" THEN 1 ELSE 0)

(* the claim's example: GET http://h/p with the header A: 1 *)
C20_Witness ==
  /\ call.fn = "CURL" /\ ret # <<>>
  /\ call.req.Method = "GET" /\ ~call.req.TLS
  /\ call.req.URL = <<"/", "p">>
  /\ call.req.Header[hA] = <<(<<"1">>)>> /\ call.req.Header[hQ] = <<>>
  /\ ret[1] = <<"curl", " ", "'", "http", "://", "h", "/", "p", "'",
               " -H ", "'", "A", ": ", "1", "'">>

(* C21: two calls of CURL with equal method, URL, header multimap and body
   return the same string, also when the request carries two or more
   header names.  (Refuted: the flags follow the order of the range over
   the header map.) *)
C21_CurlDeterministic ==
  (call.fn = "CURL" /\ Len(ret) = 2) => ret[1] = ret[2]

(* C22: with requests served one after the other, a request to a
   quiet-down route is logged exactly if no earlier request to the route
   was logged or it arrives QuietDownPeriod or more after the last one
   logged; a request that is not logged still has its handler run, on the
   caller's own ResponseWriter; a request to a route that is not listed is
   always logged.  (Refuted: the window lasts two periods.) *)
listed(q) ==
  ~q.skipped /\ routePath(q.path) \in call.QuietDownRoutes

loggedBefore(j) ==
  {i \in 1..(j - 1) : /\ requests[i].logged
                      /\ routePath(requests[i].path) = routePath(requests[j].path)}

lastLogged(j) ==
  CHOOSE i \in loggedBefore(j) : \A k \in loggedBefore(j) : k <= i

quietedFor(j, window) ==
  /\ loggedBefore(j) # {}
  /\ requests[j].arrived < requests[lastLogged(j)].at + window

cooldownOf(window) ==
  call.fn = "Handler" =>
    \A j \in 1..Len(requests) :
      requests[j].pc = "done" =>
        /\ requests[j].ranOn = (IF requests[j].logged THEN "ww" ELSE "w")
        /\ listed(requests[j]) =>
             (requests[j].logged <=> ~quietedFor(j, window))
        /\ (~requests[j].skipped /\ ~listed(requests[j])) => requests[j].logged

C22_QuietForOnePeriod == cooldownOf(call.QuietDownPeriod)

(* C30: of the requests to one quiet-down route served concurrently, no
   two are logged within one QuietDownPeriod of each other.  (Refuted: two
   requests can both find no cooldown before either has set it.) *)
C30_OneLoggedPerWindow ==
  call.fn = "Handler" =>
    \A i, j \in 1..Len(requests) :
      (/\ i < j
       /\ requests[i].logged /\ requests[j].logged
       /\ listed(requests[i]) /\ listed(requests[j])
       /\ routePath(requests[i].path) = routePath(requests[j].path))
      => \/ requests[j].at - requests[i].at >= call.QuietDownPeriod
         \/ requests[i].at - requests[j].at >= call.QuietDownPeriod

(* C23: after LogEntrySetFields(ctx, fields) on a context that carries an
   entry, the handler of the entry's logger holds exactly one attribute per
   key of fields, with the value of the key, and no other; so does the
   handler of a logger obtained from LogEntry(ctx) before the call.
   (Refuted: the handler is given one attribute, "!BADKEY".) *)
holdsFields(attrs, fields) ==
  /\ Len(attrs) = Cardinality(DOMAIN fields)
  /\ \A k \in DOMAIN fields :
       \E i \in 1..Len(attrs) : attrs[i] = slogAttr(<<k>>, fields[k])

C23_FieldsSet ==
  (call.fn = "LogEntrySetFields" /\ Len(ret) = 2 /\ call.carries) =>
    /\ holdsFields(ret[2].handlers[ret[2].entryLogger], call.fields)
    /\ holdsFields(ret[2].handlers[ret[2].log], call.fields)

(* C24: in the header fields, the value of authorization, cookie and
   set-cookie and of every header whose name is configured in
   HideRequestHeaders or SkipHeaders, in whatever letter case, is "***".
   (Refuted: a name configured with an upper-case letter hides nothing.) *)
loggedValues(k) ==
  IF call.gen = "httplog"
  THEN {ret[1][i].value : i \in {j \in 1..Len(ret[1]) : ret[1][j].key = k}}
  ELSE IF k \in DOMAIN ret[1] THEN {ret[1][k]} ELSE {}

hiddenAs(names(_)) ==
  (call.fn = "headerLogField" /\ ret # <<>>) =>
    \A n \in DOMAIN call.header :
      (/\ Len(call.header[n]) > 0
       /\ \/ ToLower(n) \in {ToLower(hAuthorization), ToLower(hCookie),
                              ToLower(hSetCookie)}
          \/ \E i \in 1..Len(call.hide) : names(call.hide[i]) = ToLower(n))
      => loggedValues(ToLower(n)) = {<<"***">>}

C24_HiddenInAnyCase == hiddenAs(ToLower)

(* C25: once the handler has called LogRequestBody(ctx), with capture off
   in Options, the bytes it reads from then on are the first bytes of the
   capture buffer; once it has called LogResponseBody(ctx), the bytes it
   writes from then on are the capture buffer of the response.  (Refuted
   for the request body: the handler reads past the tee.) *)
doneAtFirst(fn) == SelectSeq(trace, LAMBDA c : c.fn = fn)[1].done

sinceCall(sq, fn) == SubSeq(sq, doneAtFirst(fn) + 1, Len(sq))

C25_CapturedOnceEnabled ==
  (variant = "lh" /\ pc # "entry") =>
    /\ (~o.LogRequestBody /\ called("LogRequestBody") > 0) =>
         IsPrefix(sinceCall(hRead, "LogRequestBody"), reqBody)
    /\ (~o.LogResponseBody /\ called("LogResponseBody") > 0) =>
         respBody = sinceCall(direct.body, "LogResponseBody")

(* C26: on every handler panic the recovered value itself is on the
   emitted record, http.ErrAbortHandler included, and the record carries
   the frames of a call stack exactly when the value is not
   http.ErrAbortHandler.  (Refuted: the first generation logs the function
   log.Panic of the standard library in place of the value, and
   Logger.Handle keeps no value for http.ErrAbortHandler.) *)
panicOnRecord(vs) ==
  (variant \in vs /\ pc \in {"unwind", "returned", "panicked"} /\ rec # None) =>
    \A i \in 1..Len(finished) :
      /\ finished[i].panic = rec
      /\ finished[i].stack = "frames" <=> rec # ErrAbortHandler

C26_PanicValueAndStack == panicOnRecord({"mwA", "mwB", "lh"})

(* C27: the method, URL, path and selected headers of the finished record
   are those of the request as it entered the middleware, whatever the
   handler did to the request it was given.  (Refuted: the header map and
   the url.URL are shared with the handler's copy.) *)
factsAtEntry ==
  requestFacts("Request finished",
               [Method |-> call.Method, Host |-> call.Host, URL |-> 1, Header |-> 1],
               <<[Path |-> call.Path]>>, <<call.Header>>, call.LogRequestHeaders)

loggedAsEntered(fields) ==
  (call.fn = "Handle" /\ inflight.pc = "done") =>
    LET rcd == inflight.records[Len(inflight.records)]
    IN \A fld \in fields : rcd[fld] = factsAtEntry[fld]

C27_FactsAsAtEntry == loggedAsEntered({"method", "url", "path", "headers"})

(* C28: when the request body ends in a read error and capture is active,
   the handler reads the original bytes in their order and then the error,
   never an end of stream, and the buffer the emitted record's body is
   rendered from holds the bytes that were read before the error.
   (Refuted for the first RequestLogger: after a failed io.ReadAll the
   handler reads the bytes from a buffer that ends in EOF, and the capture
   buffer stays empty.) *)
readErrorKept(vs) ==
  (/\ variant \in vs
   /\ captureRequest(variant, o)
   /\ body.end = "ERR"
   /\ pc # "entry") =>
     /\ IsPrefix(hRead, body.data)
     /\ hEnd # "EOF"
     /\ hEnd = "ERR" => hRead = body.data
     /\ Len(finished) > 0 => reqBody = body.data

C28_ReadErrorKept == readErrorKept({"mwA", "mwB"})

(* C29 as stated: with request capture active, the finished record of
   Logger.Handle carries the body with bodyFullyRead=false exactly when
   the handler left bytes of the body unread, and the record of the second
   RequestLogger carries the number of bytes left unread. *)
left == Len(body.data) - Len(hRead)

C29_FullyReadFlag ==
  \A i \in 1..Len(finished) :
    /\ (variant = "lh" /\ log.LogRequestBody) =>
         finished[i].fullyRead = <<left = 0>>
    /\ (variant = "mwB" /\ o.LogRequestBody) => finished[i].unread = left

(* C29, amended: in Logger.Handle the flag log.ReqBodyFullyRead is true
   exactly when the drain found no byte left, and the record shows
   bodyFullyRead=false exactly when it is false and the record has its
   request group, which a concise record has only from status 400 on;
   below 400 a concise record carries neither the body nor the flag.  The
   second RequestLogger reports the number of bytes left unread. *)
C29_FlagWhenShown ==
  \A i \in 1..Len(finished) :
    /\ (variant = "lh" /\ log.LogRequestBody) =>
         /\ log.ReqBodyFullyRead = (left = 0)
         /\ finished[i].fullyRead =
              IF o.Concise /\ finished[i].status < 400
              THEN <<>> ELSE <<left = 0>>
    /\ (variant = "mwB" /\ o.LogRequestBody) => finished[i].unread = left

C29_Witness ==
  /\ variant = "lh"
  /\ o.Concise
  /\ Len(finished) = 1
  /\ finished[1].status = 400
  /\ finished[1].fullyRead = <<FALSE>>
  /\ Len(hRead) = 1
  /\ Len(body.data) = 2
====
